---- MODULE Spec2Model ----
(***************************************************************************)
(* A model of the ray_tracer crate: tuples, matrices and their transform   *)
(* builders, rays, spheres, intersections and hit selection.               *)
(*                                                                         *)
(* Numbers.  The crate computes in f64.  The model computes exactly, in    *)
(* the numbers (p + q*sqrt(k)) / d with integers p, q, d > 0 and k         *)
(* squarefree: they are closed under + - * / and hold the square root of   *)
(* every non-negative rational, so sqrt() is modelled by what it computes  *)
(* and not by a rounding of it.  The IEEE results of a division by zero    *)
(* (0/0 = NaN, x/0 = +-infinity) and of the square root of a negative      *)
(* number (NaN) are kept: they are values the code produces from ordinary  *)
(* inputs.  Rounding, overflow and subnormals are outside the model.       *)
(***************************************************************************)
EXTENDS Integers, Sequences, FiniteSets, TLC

(***************************************************************************)
(* f64                                                                     *)
(***************************************************************************)
Abs(i) == IF i < 0 THEN -i ELSE i

Sgn(i) == IF i < 0 THEN -1 ELSE IF i = 0 THEN 0 ELSE 1

RECURSIVE Gcd(_, _)
Gcd(a, b) == IF b = 0 THEN a ELSE Gcd(b, a % b)

\* The largest s with s*s dividing n (n >= 1), found by trial from f upwards.
RECURSIVE SquarePart(_, _)
SquarePart(n, f) ==
    IF f * f > n THEN 1
    ELSE IF n % (f * f) = 0 THEN f * SquarePart(n \div (f * f), f)
    ELSE SquarePart(n, f + 1)

\* A value outside the arithmetic the model supports (a sum of two different
\* irrational roots): evaluating it stops the check instead of guessing.
Unsupported == CHOOSE x \in {} : TRUE

\* (p + q*sqrt(k)) / d in lowest terms; a rational has q = 0 and k = 1.
Norm(p, q, d, k) ==
    LET g == Gcd(Gcd(Abs(p), Abs(q)), d)
    IN  [p |-> p \div g, q |-> q \div g, d |-> d \div g,
         k |-> IF q = 0 THEN 1 ELSE k]

Rat(n, d) == Norm(n, 0, d, 1)

F(i) == [p |-> i, q |-> 0, d |-> 1, k |-> 1]

Zero == F(0)

One == F(1)

\* f64::NAN and the two infinities: d = 0 marks a value that is no number.
NaN == [p |-> 0, q |-> 0, d |-> 0, k |-> 0]

Infinity(s) == [p |-> s, q |-> 0, d |-> 0, k |-> 0]

IsNumber(x) == x.d # 0

IsNaN(x) == x.d = 0 /\ x.p = 0

\* The root two operands share; a rational operand takes the other's.
RootOf(x, y) ==
    IF x.q = 0 THEN y.k
    ELSE IF y.q = 0 \/ y.k = x.k THEN x.k
    ELSE Unsupported

Neg(x) == [x EXCEPT !.p = -x.p, !.q = -x.q]

Add(x, y) ==
    IF ~IsNumber(x) \/ ~IsNumber(y)
    THEN IF IsNaN(x) \/ IsNaN(y) \/ x.p # y.p THEN NaN ELSE x
    ELSE IF x.q = 0 /\ y.q = 0 /\ x.d = 1 /\ y.d = 1 THEN F(x.p + y.p)
    ELSE LET l == (x.d \div Gcd(x.d, y.d)) * y.d
         IN  Norm(x.p * (l \div x.d) + y.p * (l \div y.d),
                  x.q * (l \div x.d) + y.q * (l \div y.d), l, RootOf(x, y))

Sub(x, y) == Add(x, Neg(y))

\* The sign of p + q*sqrt(k), by comparing p*p with q*q*k when the signs differ.
Sign(x) ==
    IF x.q = 0 THEN Sgn(x.p)
    ELSE IF x.p >= 0 /\ x.q > 0 THEN 1
    ELSE IF x.p <= 0 /\ x.q < 0 THEN -1
    ELSE IF x.p > 0 THEN Sgn(x.p * x.p - x.q * x.q * x.k)
    ELSE Sgn(x.q * x.q * x.k - x.p * x.p)

Mul(x, y) ==
    IF ~IsNumber(x) \/ ~IsNumber(y)
    THEN IF IsNaN(x) \/ IsNaN(y) \/ x = Zero \/ y = Zero THEN NaN
         ELSE Infinity((IF IsNumber(x) THEN Sign(x) ELSE x.p)
                       * (IF IsNumber(y) THEN Sign(y) ELSE y.p))
    ELSE IF x.q = 0 /\ y.q = 0 /\ x.d = 1 /\ y.d = 1 THEN F(x.p * y.p)
    ELSE IF x.q # 0 /\ y.q # 0 /\ x.k # y.k
    THEN \* two pure roots: sqrt(k1) * sqrt(k2) = s * sqrt(k) with k1*k2 = s*s*k
         IF x.p # 0 \/ y.p # 0 THEN Unsupported
         ELSE LET s == SquarePart(x.k * y.k, 2)
                  k == (x.k * y.k) \div (s * s)
              IN  IF k = 1 THEN Norm(x.q * y.q * s, 0, x.d * y.d, 1)
                  ELSE Norm(0, x.q * y.q * s, x.d * y.d, k)
    ELSE LET k == RootOf(x, y)
         IN  Norm(x.p * y.p + x.q * y.q * k, x.p * y.q + x.q * y.p,
                  x.d * y.d, k)

\* 1/y for a number y # 0: d * (p - q*sqrt(k)) / (p*p - q*q*k).
Recip(y) ==
    LET n == y.p * y.p - y.q * y.q * y.k
    IN  Norm(Sgn(n) * y.d * y.p, -Sgn(n) * y.d * y.q, Abs(n), y.k)

Div(x, y) ==
    IF ~IsNumber(x) \/ ~IsNumber(y)
    THEN IF IsNaN(x) \/ IsNaN(y) \/ (~IsNumber(x) /\ ~IsNumber(y)) THEN NaN
         ELSE IF IsNumber(x) THEN Zero
         ELSE Infinity(x.p * (IF Sign(y) < 0 THEN -1 ELSE 1))
    ELSE IF y = Zero
    THEN IF x = Zero THEN NaN ELSE Infinity(Sign(x))
    ELSE Mul(x, Recip(y))

\* The comparisons of f64: every comparison with NaN is false.
Lt(x, y) ==
    IF IsNaN(x) \/ IsNaN(y) THEN FALSE
    ELSE IF ~IsNumber(x) THEN x.p < 0 /\ x # y
    ELSE IF ~IsNumber(y) THEN y.p > 0
    ELSE IF x.q = 0 /\ y.q = 0 /\ x.d = y.d THEN x.p < y.p
    ELSE Sign(Sub(x, y)) < 0

Eq(x, y) == ~IsNaN(x) /\ ~IsNaN(y) /\ x = y

Le(x, y) == Lt(x, y) \/ Eq(x, y)

Ne(x, y) == ~Eq(x, y)

\* f64::sqrt: NaN below zero, the exact root otherwise.
Sqrt(x) ==
    IF IsNaN(x) THEN NaN
    ELSE IF ~IsNumber(x) THEN IF x.p > 0 THEN x ELSE NaN
    ELSE IF x.q # 0 THEN Unsupported
    ELSE IF x.p < 0 THEN NaN
    ELSE IF x.p = 0 THEN Zero
    ELSE LET n == x.p * x.d
             s == SquarePart(n, 2)
             k == n \div (s * s)
         IN  IF k = 1 THEN Norm(s, 0, x.d, 1) ELSE Norm(0, s, x.d, k)

FAbs(x) == IF IsNumber(x) /\ Sign(x) < 0 THEN Neg(x) ELSE
           IF IsNumber(x) \/ IsNaN(x) THEN x ELSE Infinity(1)

\* EPSILON = 0.00001, as the fraction 1 / EpsilonInverse.
EpsilonInverse == 100000

EPSILON == Rat(1, EpsilonInverse)

\* (a - b).abs() < EPSILON.  For a rational difference p/d the comparison
\* p/d < 1/EpsilonInverse is made as p <= (d - 1) \div EpsilonInverse, which is
\* the same and keeps the integers small.
is_float_equal(a, b) ==
    LET diff == FAbs(Sub(a, b))
    IN  IF IsNumber(diff) /\ diff.q = 0
        THEN diff.p <= (diff.d - 1) \div EpsilonInverse
        ELSE Lt(diff, EPSILON)

(***************************************************************************)
(* Option<T> and a panic.  `tag` tells which; `value` is read only when    *)
(* tag = "Some".                                                           *)
(***************************************************************************)
Some(v) == [tag |-> "Some", value |-> v]

None == [tag |-> "None", value |-> <<>>]

Panic == [tag |-> "panic", value |-> <<>>]

\* No call made yet.
NotCalled == [tag |-> "not called", value |-> <<>>]

(***************************************************************************)
(* tuple.rs: Tuple                                                         *)
(***************************************************************************)
point(x, y, z) == [x |-> x, y |-> y, z |-> z, w |-> One]

vector(x, y, z) == [x |-> x, y |-> y, z |-> z, w |-> Zero]

\* Tuple::point / Tuple::vector on integer literals.
P(x, y, z) == point(F(x), F(y), F(z))

V(x, y, z) == vector(F(x), F(y), F(z))

add(self, other) ==
    [x |-> Add(self.x, other.x), y |-> Add(self.y, other.y),
     z |-> Add(self.z, other.z), w |-> Add(self.w, other.w)]

\* Sub for Tuple with the w of the left operand kept.
sub_keeping_w(self, other) ==
    [x |-> Sub(self.x, other.x), y |-> Sub(self.y, other.y),
     z |-> Sub(self.z, other.z), w |-> self.w]

sub(self, other) ==
    [x |-> Sub(self.x, other.x), y |-> Sub(self.y, other.y),
     z |-> Sub(self.z, other.z), w |-> Sub(self.w, other.w)]

neg(self) ==
    [x |-> Neg(self.x), y |-> Neg(self.y), z |-> Neg(self.z), w |-> Neg(self.w)]

mul_scalar(self, scalar) ==
    [x |-> Mul(self.x, scalar), y |-> Mul(self.y, scalar),
     z |-> Mul(self.z, scalar), w |-> Mul(self.w, scalar)]

dot(self, other) ==
    Add(Add(Add(Mul(self.x, other.x), Mul(self.y, other.y)),
            Mul(self.z, other.z)), Mul(self.w, other.w))

\* powf(2.0) is the square.
magnitude(self) ==
    Sqrt(Add(Add(Add(Mul(self.x, self.x), Mul(self.y, self.y)),
                 Mul(self.z, self.z)), Mul(self.w, self.w)))

\* Tuple::normalize returning a vector whatever w it is given.
normalize_as_vector(self) ==
    LET m == magnitude(self)
    IN  vector(Div(self.x, m), Div(self.y, m), Div(self.z, m))

normalize(self) ==
    LET m == magnitude(self)
    IN  [x |-> Div(self.x, m), y |-> Div(self.y, m), z |-> Div(self.z, m),
         w |-> Div(self.w, m)]

\* Tuple::cross with the last component's difference turned into a sum.
cross_with_sum(self, other) ==
    vector(Sub(Mul(self.y, other.z), Mul(self.z, other.y)),
           Sub(Mul(self.z, other.x), Mul(self.x, other.z)),
           Add(Mul(self.x, other.y), Mul(self.y, other.x)))

\* Tuple::cross
cross(self, other) ==
    vector(Sub(Mul(self.y, other.z), Mul(self.z, other.y)),
           Sub(Mul(self.z, other.x), Mul(self.x, other.z)),
           Sub(Mul(self.x, other.y), Mul(self.y, other.x)))

\* Tuple::is_equal
is_equal(self, other) ==
    /\ is_float_equal(self.x, other.x)
    /\ is_float_equal(self.y, other.y)
    /\ is_float_equal(self.z, other.z)
    /\ is_float_equal(self.w, other.w)

\* The == of Tuple, from #[derive(PartialEq)]: == on each f64 field.
tuple_eq(self, other) ==
    /\ Eq(self.x, other.x)
    /\ Eq(self.y, other.y)
    /\ Eq(self.z, other.z)
    /\ Eq(self.w, other.w)

(***************************************************************************)
(* matrix/mod.rs: Matrix.  A matrix is the sequence of its rows; the       *)
(* operators take the 0-based indexes of the source.                       *)
(***************************************************************************)
At(m, row, col) == m[row + 1][col + 1]

\* The Vec <<e(1), ..., e(n)>>, as a sequence value with its elements computed.
Vec(n, e(_)) == [i \in 1..n |-> e(i)] \o <<>>

\* Matrix::new: row_count rows of col_count zeros.
new(row_count, col_count) ==
    LET zero(c) == Zero
        row(r) == Vec(col_count, zero)
    IN  Vec(row_count, row)

identity ==
    << <<One, Zero, Zero, Zero>>,
       <<Zero, One, Zero, Zero>>,
       <<Zero, Zero, One, Zero>>,
       <<Zero, Zero, Zero, One>> >>

\* transposed[idx][col] = self[col][idx], written over a clone of self.
transpose(self) ==
    LET transposed_row(idx) ==
            LET cell(col) == self[col][idx] IN Vec(Len(self[idx]), cell)
    IN  Vec(Len(self), transposed_row)

\* The sequence s without its element at 0-based index i.
Without(s, i) ==
    LET kept(j) == IF j <= i THEN s[j] ELSE s[j + 1] IN Vec(Len(s) - 1, kept)

submatrix(self, row_idx, col_idx) ==
    LET rows == Without(self, row_idx)
        new_row(i) == Without(rows[i], col_idx)
    IN  Vec(Len(rows), new_row)

\* determinant() indexes self.rows[0]: on a matrix without rows that is an
\* index out of bounds, which panics.  A 2x2 matrix is the base case; every
\* other size recurses through cofactor(0, col) on a matrix one smaller, so a
\* 1x1 matrix reaches the empty matrix.
RECURSIVE determinant_panics(_)
determinant_panics(self) ==
    /\ Len(self) # 2
    /\ \/ Len(self) = 0
       \/ \E col \in 0..(Len(self[1]) - 1) :
              determinant_panics(submatrix(self, 0, col))

RECURSIVE determinant(_)
RECURSIVE cofactor(_, _, _)
RECURSIVE DeterminantLoop(_, _, _)

minor(self, row, col) == determinant(submatrix(self, row, col))

\* cofactor without the negation at odd row + col.
cofactor_unsigned(self, row, col) == minor(self, row, col)

cofactor(self, row, col) ==
    IF (row + col) % 2 = 0 THEN minor(self, row, col)
    ELSE Neg(minor(self, row, col))

\* The loop of determinant() from column col on, with the sum so far.
DeterminantLoop(self, col, sum) ==
    IF col >= Len(self[1]) THEN sum
    ELSE DeterminantLoop(self, col + 1,
             Add(sum, Mul(cofactor(self, 0, col), At(self, 0, col))))

determinant(self) ==
    IF Len(self) = 2
    THEN Sub(Mul(At(self, 0, 0), At(self, 1, 1)),
             Mul(At(self, 0, 1), At(self, 1, 0)))
    ELSE DeterminantLoop(self, 0, Zero)

is_invertible(self) == Ne(determinant(self), Zero)

\* inverse() writing each quotient to [row_idx][col], the cofactor's own place.
inverse_untransposed(self) ==
    IF determinant_panics(self) THEN Panic
    ELSE IF ~is_invertible(self) THEN None
    ELSE IF determinant_panics(submatrix(self, 0, 0)) THEN Panic
    ELSE LET inverted_row(row_idx) ==
                 LET cell(col) ==
                         Div(cofactor(self, row_idx - 1, col - 1),
                             determinant(self))
                 IN  Vec(Len(self), cell)
         IN  Some(Vec(Len(self), inverted_row))

\* inverse(): Some(matrix), None, or a panic inside determinant().  The
\* determinant every cell is divided by is the same, and is computed once here.
inverse(self) ==
    IF determinant_panics(self) THEN Panic
    ELSE IF ~is_invertible(self) THEN None
    ELSE IF determinant_panics(submatrix(self, 0, 0)) THEN Panic
    ELSE LET divisor == determinant(self)
             inverted_row(col) ==
                 LET cell(row_idx) ==
                         Div(cofactor(self, row_idx - 1, col - 1), divisor)
                 IN  Vec(Len(self), cell)
         IN  Some(Vec(Len(self), inverted_row))

\* Mul for Matrix and for &Matrix: four products per cell, whatever the size.
matrix_mul(self, other) ==
    LET width == Len(self[1])
        product_row(row) ==
            LET cell(col) ==
                    Add(Add(Add(Mul(self[row][1], other[1][col]),
                                Mul(self[row][2], other[2][col])),
                            Mul(self[row][3], other[3][col])),
                        Mul(self[row][4], other[4][col]))
            IN  Vec(width, cell)
    IN  Vec(width, product_row)

\* Mul<Tuple> for Matrix: w is row 3's result.
matrix_mul_tuple(self, other) ==
    LET row(i) == Add(Add(Add(Mul(self[i][1], other.x), Mul(self[i][2], other.y)),
                          Mul(self[i][3], other.z)), Mul(self[i][4], other.w))
    IN  [x |-> row(1), y |-> row(2), z |-> row(3), w |-> row(4)]

\* Matrix::populate on integer literals.
M(rows) ==
    LET row(r) == LET cell(c) == F(rows[r][c]) IN Vec(Len(rows[r]), cell)
    IN  Vec(Len(rows), row)

(***************************************************************************)
(* matrix/transformations.rs.  An angle in radians is modelled by the      *)
(* exact values of its cos() and sin().                                    *)
(***************************************************************************)
Angle(c, s) == [cos |-> c, sin |-> s]

\* PI / 2, PI / 4 and atan(4/3).
QuarterTurn == Angle(Zero, One)

EighthTurn == Angle(Div(Sqrt(F(2)), F(2)), Div(Sqrt(F(2)), F(2)))

Atan43 == Angle(Rat(3, 5), Rat(4, 5))

\* translate() with the new matrix as the right operand.
translate_right(self, x, y, z) ==
    LET transform == [identity EXCEPT ![1][4] = x, ![2][4] = y, ![3][4] = z]
    IN  matrix_mul(self, transform)

translate(self, x, y, z) ==
    LET transform == [identity EXCEPT ![1][4] = x, ![2][4] = y, ![3][4] = z]
    IN  matrix_mul(transform, self)

\* scale() with the new matrix as the right operand.
scale_right(self, x, y, z) ==
    LET transform == [identity EXCEPT ![1][1] = x, ![2][2] = y, ![3][3] = z]
    IN  matrix_mul(self, transform)

scale(self, x, y, z) ==
    LET transform == [identity EXCEPT ![1][1] = x, ![2][2] = y, ![3][3] = z]
    IN  matrix_mul(transform, self)

rotate_x(self, radians) ==
    LET transform == [identity EXCEPT ![2][2] = radians.cos,
                                      ![2][3] = Neg(radians.sin),
                                      ![3][2] = radians.sin,
                                      ![3][3] = radians.cos]
    IN  matrix_mul(transform, self)

rotate_y(self, radians) ==
    LET transform == [identity EXCEPT ![1][1] = radians.cos,
                                      ![1][3] = radians.sin,
                                      ![3][1] = Neg(radians.sin),
                                      ![3][3] = radians.cos]
    IN  matrix_mul(transform, self)

rotate_z(self, radians) ==
    LET transform == [identity EXCEPT ![1][1] = radians.cos,
                                      ![1][2] = Neg(radians.sin),
                                      ![2][1] = radians.sin,
                                      ![2][2] = radians.cos]
    IN  matrix_mul(transform, self)

shear(self, xy, xz, yx, yz, zx, zy) ==
    LET transform == [identity EXCEPT ![1][2] = xy, ![1][3] = xz,
                                      ![2][1] = yx, ![2][3] = yz,
                                      ![3][1] = zx, ![3][2] = zy]
    IN  matrix_mul(transform, self)

(***************************************************************************)
(* rays.rs                                                                 *)
(***************************************************************************)
Ray_new(origin, direction) == [origin |-> origin, direction |-> direction]

position(self, time) == add(mul_scalar(self.direction, time), self.origin)

ray_transform(self, transformation) ==
    [origin |-> matrix_mul_tuple(transformation, self.origin),
     direction |-> matrix_mul_tuple(transformation, self.direction)]

black == [red |-> Zero, green |-> Zero, blue |-> Zero]

Material_new ==
    [color |-> black, ambient |-> Rat(1, 10), diffuse |-> Rat(9, 10),
     specular |-> Rat(9, 10), shininess |-> F(200)]

\* Sphere::with_transform; id is the number rng.gen() drew.
with_transform(transform, id) ==
    [id |-> id, transform |-> transform, material |-> Material_new]

\* An Intersection holds a reference to its sphere; the model holds the sphere
\* referred to, which is also what the derived PartialEq compares.
Intersection_new(time, object) == [time |-> time, object |-> object]

\* The last branch of Ray::intersect with the larger root first.
intersections_swapped(a, b, discriminant, sphere) ==
    LET sqrt == Sqrt(discriminant)
    IN  Some(<<Intersection_new(Div(Add(Neg(b), sqrt), Mul(F(2), a)), sphere),
               Intersection_new(Div(Sub(Neg(b), sqrt), Mul(F(2), a)), sphere)>>)

\* Ray::intersect, its last branch: the two intersections, in the Vec's order.
intersections_at(a, b, discriminant, sphere) ==
    LET sqrt == Sqrt(discriminant)
    IN  Some(<<Intersection_new(Div(Sub(Neg(b), sqrt), Mul(F(2), a)), sphere),
               Intersection_new(Div(Add(Neg(b), sqrt), Mul(F(2), a)), sphere)>>)

\* The quadratic of Ray::intersect with a tangent ray counted as a miss.
unit_sphere_hits_strict(new_ray, sphere) ==
    LET center_to_origin == sub(new_ray.origin, point(Zero, Zero, Zero))
        a == dot(new_ray.direction, new_ray.direction)
        b == Mul(F(2), dot(new_ray.direction, center_to_origin))
        c == Sub(dot(center_to_origin, center_to_origin), One)
        discriminant == Sub(Mul(b, b), Mul(Mul(F(4), a), c))
    IN  IF Le(discriminant, Zero) THEN None
        ELSE intersections_at(a, b, discriminant, sphere)

\* Ray::intersect from new_ray on: the quadratic against the unit sphere.
unit_sphere_hits(new_ray, sphere) ==
    LET sphere_center == point(Zero, Zero, Zero)
        center_to_origin == sub(new_ray.origin, sphere_center)
        a == dot(new_ray.direction, new_ray.direction)
        b == Mul(F(2), dot(new_ray.direction, center_to_origin))
        c == Sub(dot(center_to_origin, center_to_origin), One)
        discriminant == Sub(Mul(b, b), Mul(Mul(F(4), a), c))
    IN  IF Lt(discriminant, Zero) THEN None
        ELSE intersections_at(a, b, discriminant, sphere)

\* Ray::intersect casting the ray as it is at a sphere without an inverse.
intersect_unmoved(self, sphere) ==
    LET transform_inverse == inverse(sphere.transform)
    IN  IF transform_inverse.tag = "Some"
        THEN unit_sphere_hits(ray_transform(self, transform_inverse.value),
                              sphere)
        ELSE unit_sphere_hits(self, sphere)

\* Ray::intersect moving the ray by the transform, not by its inverse.
intersect_forward(self, sphere) ==
    LET transform_inverse == inverse(sphere.transform)
    IN  IF transform_inverse.tag # "Some" THEN transform_inverse
        ELSE unit_sphere_hits(ray_transform(self, sphere.transform), sphere)

\* Ray::intersect: Some(two intersections) or None.  inverse() cannot panic on
\* the 4x4 matrices spheres have; a panic in it would pass through.
intersect(self, sphere) ==
    LET transform_inverse == inverse(sphere.transform)
    IN  IF transform_inverse.tag # "Some" THEN transform_inverse
        ELSE unit_sphere_hits(ray_transform(self, transform_inverse.value),
                              sphere)

\* normal_at without world_normal.w = 0.0.
normal_at_keeping_w(self, world_point) ==
    LET inv == inverse(self.transform)
    IN  IF inv.tag = "Some"
        THEN LET object_point == matrix_mul_tuple(inv.value, world_point)
                 object_normal == sub(object_point, point(Zero, Zero, Zero))
             IN  Some(normalize(matrix_mul_tuple(transpose(inv.value),
                                                 object_normal)))
        ELSE IF inv.tag = "panic" THEN Panic ELSE None

\* Object for Sphere: normal_at.
normal_at(self, world_point) ==
    LET inv == inverse(self.transform)
    IN  IF inv.tag = "Some"
        THEN LET center == point(Zero, Zero, Zero)
                 object_point == matrix_mul_tuple(inv.value, world_point)
                 object_normal == sub(object_point, center)
                 world_normal ==
                     [matrix_mul_tuple(transpose(inv.value), object_normal)
                          EXCEPT !.w = Zero]
             IN  Some(normalize(world_normal))
        ELSE IF inv.tag = "panic" THEN Panic ELSE None

\* hit() without the test that passes over negative times.
hit_any_time(intersections) ==
    IF intersections = <<>> THEN None
    ELSE Some((CHOOSE i \in 1..Len(intersections) :
                   \A j \in 1..Len(intersections) :
                       /\ ~Lt(intersections[j].time, intersections[i].time)
                       /\ j < i => Lt(intersections[i].time,
                                      intersections[j].time)) - 1)

\* hit() replacing the hit found so far by a later intersection of the same
\* time.
hit_last_of_ties(intersections) ==
    IF \A i \in 1..Len(intersections) : Lt(intersections[i].time, Zero)
    THEN None
    ELSE Some((CHOOSE i \in 1..Len(intersections) :
                   /\ ~Lt(intersections[i].time, Zero)
                   /\ \A j \in 1..Len(intersections) :
                          \/ Lt(intersections[j].time, Zero)
                          \/ Lt(intersections[i].time, intersections[j].time)
                          \/ /\ intersections[j].time = intersections[i].time
                             /\ j <= i) - 1)

\* hit() keeping the first intersection that is not behind the ray.
hit_first(intersections) ==
    IF \A i \in 1..Len(intersections) : Lt(intersections[i].time, Zero)
    THEN None
    ELSE Some((CHOOSE i \in 1..Len(intersections) :
                   /\ ~Lt(intersections[i].time, Zero)
                   /\ \A j \in 1..(i - 1) :
                          Lt(intersections[j].time, Zero)) - 1)

\* hit(): the loop over intersections[i..], with the hit found so far.  The
\* result refers to an element of the Vec: it is Some(0-based index) or None.
RECURSIVE HitLoop(_, _, _)
HitLoop(intersections, i, hit) ==
    IF i >= Len(intersections) THEN hit
    ELSE LET intersection == intersections[i + 1]
         IN  IF Lt(intersection.time, Zero)
             THEN HitLoop(intersections, i + 1, hit)
             ELSE IF hit.tag = "None"
             THEN HitLoop(intersections, i + 1, Some(i))
             ELSE IF Lt(intersection.time, intersections[hit.value + 1].time)
             THEN HitLoop(intersections, i + 1, Some(i))
             ELSE HitLoop(intersections, i + 1, hit)

hit(intersections) == HitLoop(intersections, 0, None)

(***************************************************************************)
(* tuple.rs: Color; rays.rs: PointLight and lighting                       *)
(***************************************************************************)
Color_new(red, green, blue) == [red |-> red, green |-> green, blue |-> blue]

white == Color_new(One, One, One)

\* Add for Color with each sum held at 1.0.
color_add_clamped(self, other) ==
    LET held_at_one(x) == IF Lt(One, x) THEN One ELSE x
    IN  [red |-> held_at_one(Add(self.red, other.red)),
         green |-> held_at_one(Add(self.green, other.green)),
         blue |-> held_at_one(Add(self.blue, other.blue))]

\* Add for Color
color_add(self, other) ==
    [red |-> Add(self.red, other.red), green |-> Add(self.green, other.green),
     blue |-> Add(self.blue, other.blue)]

\* Mul for &Color
color_mul(self, other) ==
    [red |-> Mul(self.red, other.red), green |-> Mul(self.green, other.green),
     blue |-> Mul(self.blue, other.blue)]

\* Add for &Color multiplying the components.
color_product(self, other) ==
    [red |-> Mul(self.red, other.red), green |-> Mul(self.green, other.green),
     blue |-> Mul(self.blue, other.blue)]

\* Add for &Color
color_add_ref(self, other) ==
    [red |-> Add(self.red, other.red), green |-> Add(self.green, other.green),
     blue |-> Add(self.blue, other.blue)]

\* Mul<f64> for &Color
color_mul_scalar(self, scalar) ==
    [red |-> Mul(self.red, scalar), green |-> Mul(self.green, scalar),
     blue |-> Mul(self.blue, scalar)]

\* Tuple::reflect without the factor 2.0.
reflect_unscaled(self, normal) ==
    sub(self, mul_scalar(normal, dot(self, normal)))

\* *self - *normal * 2.0 * self.dot(normal)
reflect(self, normal) ==
    sub(self, mul_scalar(mul_scalar(normal, F(2)), dot(self, normal)))

\* f64::powf for a base above zero and an exponent that is a whole number:
\* 1 for the base 1, the product of n factors otherwise.
RECURSIVE PowLoop(_, _)
PowLoop(x, n) == IF n = 0 THEN One ELSE Mul(x, PowLoop(x, n - 1))

Powf(x, y) ==
    IF x = One THEN One
    ELSE IF y.q # 0 \/ y.d # 1 \/ y.p < 0 THEN Unsupported
    ELSE PowLoop(x, y.p)

PointLight_new(position_, intensity) ==
    [position |-> position_, intensity |-> intensity]

\* lighting() without the test of light_dot_normal.
lighting_terms_unguarded(material, light, position_, eye, normal) ==
    LET effective_color == color_add_ref(material.color, light.intensity)
        light_direction == normalize(sub(light.position, position_))
        light_dot_normal == dot(light_direction, normal)
        reflection_direction == neg(reflect(light_direction, normal))
        reflect_dot_eye == dot(reflection_direction, eye)
    IN  [effective_color |-> effective_color,
         reflection_direction |-> Some(reflection_direction),
         ambient |-> color_mul_scalar(effective_color, material.ambient),
         diffuse |-> color_mul_scalar(
                         color_mul_scalar(effective_color, material.diffuse),
                         light_dot_normal),
         specular |->
             IF Le(reflect_dot_eye, Zero) THEN black
             ELSE color_mul_scalar(
                      color_mul_scalar(light.intensity, material.specular),
                      Powf(reflect_dot_eye, material.shininess))]

\* lighting(), up to its last line: the locals effective_color, ambient,
\* diffuse and specular as they are when the sum is formed, and
\* reflection_direction if the branch that computes it was taken.
lighting_terms(material, light, position_, eye, normal) ==
    LET effective_color == color_add_ref(material.color, light.intensity)
        light_direction == normalize(sub(light.position, position_))
        ambient == color_mul_scalar(effective_color, material.ambient)
        light_dot_normal == dot(light_direction, normal)
        reflection_direction == neg(reflect(light_direction, normal))
        reflect_dot_eye == dot(reflection_direction, eye)
    IN  IF Lt(Zero, light_dot_normal)
        THEN [effective_color |-> effective_color,
              reflection_direction |-> Some(reflection_direction),
              ambient |-> ambient,
              diffuse |-> color_mul_scalar(
                              color_mul_scalar(effective_color,
                                               material.diffuse),
                              light_dot_normal),
              specular |->
                  IF Le(reflect_dot_eye, Zero) THEN black
                  ELSE color_mul_scalar(
                           color_mul_scalar(light.intensity,
                                            material.specular),
                           Powf(reflect_dot_eye, material.shininess))]
        ELSE [effective_color |-> effective_color,
              reflection_direction |-> NotCalled, ambient |-> ambient,
              diffuse |-> black, specular |-> black]

\* lighting(): ambient + diffuse + specular
lighting(material, light, position_, eye, normal) ==
    LET terms == lighting_terms(material, light, position_, eye, normal)
    IN  color_add(color_add(terms.ambient, terms.diffuse), terms.specular)

(***************************************************************************)
(* canvas.rs: the pixel buffer and its PPM text                            *)
(***************************************************************************)
MAX_PPM_VALUE == 255

PPM_LINE_SIZE == 70

\* `x as i32` of an f64: the integer part (towards zero), 0 for NaN, the
\* nearest i32 for the infinities.
as_i32(x) ==
    IF IsNaN(x) THEN 0
    ELSE IF ~IsNumber(x) THEN (IF x.p > 0 THEN 2147483647 ELSE -2147483647 - 1)
    ELSE IF x.q # 0 THEN Unsupported
    ELSE Sgn(x.p) * (Abs(x.p) \div x.d)

\* `(i as usize) < len` for an i32 i and a Vec's len: a negative i becomes
\* 2^64 + i, which no len exceeds.
usize_lt(i, len) == i >= 0 /\ i < len

\* Canvas::new, for width * height >= 0 (Vec::with_capacity panics on the
\* usize a negative capacity is cast to).
Canvas_new(width, height) ==
    [width |-> width, height |-> height,
     pixels |-> Vec(width * height, LAMBDA i : black)]

\* Canvas::point_to_index, before its cast to usize.
point_to_index(self, point_) ==
    as_i32(point_.y) * self.width + as_i32(point_.x)

\* Canvas::write_pixel storing at the element after the indexed one.
write_pixel_off_by_one(self, point_, pixel) ==
    LET idx == point_to_index(self, point_) + 1
    IN  IF usize_lt(idx, Len(self.pixels))
        THEN [self EXCEPT !.pixels[idx + 1] = pixel]
        ELSE self

\* Canvas::write_pixel; pixels[idx] is element idx + 1 of the sequence.
write_pixel(self, point_, pixel) ==
    LET idx == point_to_index(self, point_)
    IN  IF usize_lt(idx, Len(self.pixels))
        THEN [self EXCEPT !.pixels[idx + 1] = pixel]
        ELSE self

\* Canvas::pixel_at
pixel_at(self, point_) ==
    LET idx == point_to_index(self, point_)
    IN  IF usize_lt(idx, Len(self.pixels))
        THEN Some(self.pixels[idx + 1])
        ELSE None

\* i32::clamp, for min <= max.
clamp(x, min, max) == IF x < min THEN min ELSE IF x > max THEN max ELSE x

\* scale_value without the clamp.
scale_value_unclamped(value, max) == as_i32(Mul(value, F(max + 1)))

\* scale_value
scale_value(value, max) ==
    LET total_values == F(max + 1)
        scaled == as_i32(Mul(value, total_values))
    IN  clamp(scaled, 0, max)

\* A String is the sequence of its characters.
RECURSIVE to_string(_)
to_string(n) ==
    LET digit(d) ==
            <<"0", "1", "2", "3", "4", "5", "6", "7", "8", "9">>[d + 1]
    IN  IF n < 0 THEN <<"-">> \o to_string(-n)
        ELSE IF n < 10 THEN <<digit(n)>>
        ELSE to_string(n \div 10) \o <<digit(n % 10)>>

\* String::pop removing nothing.
pop_nothing(string) == string

\* String::pop
pop(string) ==
    IF string = <<>> THEN string ELSE SubSeq(string, 1, Len(string) - 1)

\* The body of to_ppm's inner loop with the space before a wrap kept.
ppm_put_keeping_space(ppm, char_count, scaled) ==
    LET value == to_string(scaled)
        value_length == Len(value)
        next_char_count == char_count + value_length + 1
    IN  IF next_char_count > PPM_LINE_SIZE
        THEN [ppm |-> ppm \o <<"\n">> \o value \o <<" ">>,
              char_count |-> value_length]
        ELSE [ppm |-> ppm \o value \o <<" ">>,
              char_count |-> next_char_count]

\* The body of to_ppm's inner loop, for one scaled value.
ppm_put(ppm, char_count, scaled) ==
    LET value == to_string(scaled)
        value_length == Len(value)
        next_char_count == char_count + value_length + 1
    IN  IF next_char_count > PPM_LINE_SIZE
        THEN [ppm |-> pop(ppm) \o <<"\n">> \o value \o <<" ">>,
              char_count |-> value_length]
        ELSE [ppm |-> ppm \o value \o <<" ">>,
              char_count |-> next_char_count]

\* Color::iter: red, green, blue.
color_iter(color) == <<color.red, color.green, color.blue>>

\* to_ppm's loops from value k (counted over all pixels) on.  The test on
\* put.char_count is always true; with it a step is evaluated before the
\* steps after it.
RECURSIVE PpmLoop(_, _, _, _)
PpmLoop(self, k, ppm, char_count) ==
    IF k > 3 * Len(self.pixels) THEN ppm
    ELSE LET color == self.pixels[((k - 1) \div 3) + 1]
             value == color_iter(color)[((k - 1) % 3) + 1]
             put == ppm_put(ppm, char_count,
                            scale_value(value, MAX_PPM_VALUE))
         IN  IF put.char_count >= 0
             THEN PpmLoop(self, k + 1, put.ppm, put.char_count)
             ELSE Unsupported

\* Canvas::to_ppm
to_ppm(self) ==
    LET header ==
            <<"P", "3", "\n">> \o to_string(self.width) \o <<" ">>
                \o to_string(self.height) \o <<"\n">>
                \o to_string(MAX_PPM_VALUE) \o <<"\n">>
    IN  pop(PpmLoop(self, 1, header, 0)) \o <<"\n">>

\* Sphere::new
Sphere_new(id) == with_transform(identity, id)

(***************************************************************************)
(* State                                                                   *)
(***************************************************************************)
VARIABLES
    matrix,         \* the Matrix a builder chain has produced so far
    start,          \* the Matrix the chain started from
    chain,          \* the builder calls made on it, in call order
    intersections,  \* a Vec<Intersection> handed to hit()
    found,          \* what hit(&intersections) returned
    mat,            \* a Matrix made by populate/new and matrix[r][c] = v
    inserts,        \* the number of matrix[r][c] = v made on mat
    inverted,       \* what mat.inverse() returned
    det,            \* what mat.determinant() returned
    sphere,         \* a Sphere
    call,           \* the latest call on the sphere: arguments and result
    held,           \* a Matrix its owner calls &self methods on
    made,           \* the values those calls returned, bound one by one
    heldRay,        \* a Ray its owner calls transform() on
    movedRay,       \* what heldRay.transform(..) returned
    scene,          \* the arguments of a call of lighting()
    lit,            \* its locals at the last line, and the Color returned
    canvas,         \* a Canvas
    written,        \* the latest write_pixel on it, and whether it changed it
    canvasCall,     \* the read made of it since: pixel_at or to_ppm
    scaling,        \* a call of scale_value: arguments and result
    created,        \* the spheres constructed so far, in order
    lhs,            \* a Tuple, the receiver of a call
    rhs,            \* a Tuple, the argument of the call
    tupleOut,       \* the latest call on them and its result
    program,        \* the example whose main is running
    setup,          \* what main built before its loop: sphere, light, size
    frame,          \* main's Canvas
    pixelX,         \* the loop variable x of main's outer loop
    pixelY,         \* the loop variable y of main's inner loop
    pc,             \* where main is: in its loops, past them, or panicked
    visited,        \* the (x, y) the loop body has run for, in order
    traced          \* the loop body's latest run: what its calls returned

transformVars == <<matrix, start, chain>>

hitVars == <<intersections, found>>

matrixVars == <<mat, inserts, inverted, det>>

rayVars == <<sphere, call>>

ownedVars == <<held, made, heldRay, movedRay>>

lightVars == <<scene, lit>>

canvasVars == <<canvas, written, canvasCall>>

scaleVars == <<scaling>>

sphereVars == <<created>>

tupleVars == <<lhs, rhs, tupleOut>>

renderVars ==
    <<program, setup, frame, pixelX, pixelY, pc, visited, traced>>

vars ==
    <<matrix, start, chain, intersections, found, mat, inserts, inverted, det,
      sphere, call, held, made, heldRay, movedRay, scene, lit, canvas,
      written, canvasCall, scaling, created, lhs, rhs, tupleOut, program,
      setup, frame, pixelX, pixelY, pc, visited, traced>>

\* The variables of a part of the crate a specification does not exercise.
IdleTransform == matrix = identity /\ start = identity /\ chain = <<>>

IdleHit == intersections = <<>> /\ found = NotCalled

IdleMatrix ==
    mat = identity /\ inserts = 0 /\ inverted = NotCalled /\ det = NotCalled

NoCall == [op |-> "none"]

IdleRay == sphere = with_transform(identity, 0) /\ call = NoCall

IdleOwned ==
    /\ held = identity
    /\ made = <<>>
    /\ heldRay = Ray_new(point(Zero, Zero, Zero), vector(Zero, Zero, One))
    /\ movedRay = NotCalled

Scene(material, light, position_, eye, normal) ==
    [material |-> material, light |-> light, position |-> position_,
     eye |-> eye, normal |-> normal]

IdleLight ==
    /\ scene = Scene(Material_new,
                     PointLight_new(point(Zero, Zero, Zero), white),
                     point(Zero, Zero, Zero), vector(Zero, Zero, One),
                     vector(Zero, Zero, One))
    /\ lit = NotCalled

IdleCanvas ==
    /\ canvas = Canvas_new(0, 0)
    /\ written = NotCalled
    /\ canvasCall = NoCall

IdleScale == scaling = [value |-> Zero, max |-> 0, result |-> NotCalled]

IdleSphere == created = <<>>

IdleTuple ==
    /\ lhs = vector(Zero, Zero, Zero)
    /\ rhs = vector(Zero, Zero, Zero)
    /\ tupleOut = NoCall

IdleRender ==
    /\ program = "none"
    /\ setup = NoCall
    /\ frame = Canvas_new(0, 0)
    /\ pixelX = 0
    /\ pixelY = 0
    /\ pc = "idle"
    /\ visited = <<>>
    /\ traced = NotCalled

\* Every part of the crate but the one a specification exercises is idle at
\* the start and is left as it is by each step.
OthersIdle(own) ==
    /\ IF own = "transform" THEN TRUE ELSE IdleTransform
    /\ IF own = "hit" THEN TRUE ELSE IdleHit
    /\ IF own = "matrix" THEN TRUE ELSE IdleMatrix
    /\ IF own = "ray" THEN TRUE ELSE IdleRay
    /\ IF own = "owned" THEN TRUE ELSE IdleOwned
    /\ IF own = "light" THEN TRUE ELSE IdleLight
    /\ IF own = "canvas" THEN TRUE ELSE IdleCanvas
    /\ IF own = "scale" THEN TRUE ELSE IdleScale
    /\ IF own = "sphere" THEN TRUE ELSE IdleSphere
    /\ IF own = "tuple" THEN TRUE ELSE IdleTuple
    /\ IF own = "render" THEN TRUE ELSE IdleRender

OthersUnchanged(own) ==
    /\ IF own = "transform" THEN TRUE ELSE UNCHANGED transformVars
    /\ IF own = "hit" THEN TRUE ELSE UNCHANGED hitVars
    /\ IF own = "matrix" THEN TRUE ELSE UNCHANGED matrixVars
    /\ IF own = "ray" THEN TRUE ELSE UNCHANGED rayVars
    /\ IF own = "owned" THEN TRUE ELSE UNCHANGED ownedVars
    /\ IF own = "light" THEN TRUE ELSE UNCHANGED lightVars
    /\ IF own = "canvas" THEN TRUE ELSE UNCHANGED canvasVars
    /\ IF own = "scale" THEN TRUE ELSE UNCHANGED scaleVars
    /\ IF own = "sphere" THEN TRUE ELSE UNCHANGED sphereVars
    /\ IF own = "tuple" THEN TRUE ELSE UNCHANGED tupleVars
    /\ IF own = "render" THEN TRUE ELSE UNCHANGED renderVars

(***************************************************************************)
(* Bounds and input sets                                                   *)
(***************************************************************************)
\* The longest chain of builder calls.
MaxChain == 3

\* The translations, scalings and angles the builders are called with.
Offsets == {<<F(10), F(5), F(7)>>}

Factors == {<<F(5), F(5), F(5)>>, <<F(1), Rat(1, 2), F(1)>>}

Angles == {QuarterTurn}

Shears == {<<F(1), F(0), F(0), F(0), F(0), F(0)>>}

\* A matrix that is no transform of the builders, to start a chain from.
Skewed == M(<< <<1, 2, 3, 4>>, <<2, 4, 4, 2>>, <<8, 6, 4, 1>>, <<0, 0, 0, 1>> >>)

(***************************************************************************)
(* Builder chains: matrix = start.builder(..).builder(..)...               *)
(***************************************************************************)
\* One builder call; `alone` is the call's own matrix, identity.builder(..).
Call(op, result, alone, limit) ==
    /\ Len(chain) < limit
    /\ matrix' = result
    /\ chain' = Append(chain, [op |-> op, alone |-> alone])
    /\ UNCHANGED start
    /\ OthersUnchanged("transform")

Translate(limit) ==
    \E t \in Offsets :
        Call("translate", translate(matrix, t[1], t[2], t[3]),
             translate(identity, t[1], t[2], t[3]), limit)

Scale(limit) ==
    \E f \in Factors :
        Call("scale", scale(matrix, f[1], f[2], f[3]),
             scale(identity, f[1], f[2], f[3]), limit)

RotateX(limit) ==
    \E r \in Angles :
        Call("rotate_x", rotate_x(matrix, r), rotate_x(identity, r), limit)

RotateY(limit) ==
    \E r \in Angles :
        Call("rotate_y", rotate_y(matrix, r), rotate_y(identity, r), limit)

RotateZ(limit) ==
    \E r \in Angles :
        Call("rotate_z", rotate_z(matrix, r), rotate_z(identity, r), limit)

Shear(limit) ==
    \E s \in Shears :
        Call("shear", shear(matrix, s[1], s[2], s[3], s[4], s[5], s[6]),
             shear(identity, s[1], s[2], s[3], s[4], s[5], s[6]), limit)

InitTransform ==
    /\ start \in {identity, Skewed}
    /\ matrix = start
    /\ chain = <<>>
    /\ OthersIdle("transform")

NextTransform ==
    \/ Translate(MaxChain)
    \/ Scale(MaxChain)
    \/ RotateX(MaxChain)
    \/ RotateY(MaxChain)
    \/ RotateZ(MaxChain)
    \/ Shear(MaxChain)

SpecTransform == InitTransform /\ [][NextTransform]_vars

(***************************************************************************)
(* C10                                                                     *)
(***************************************************************************)
\* The matrix of the chain's first n calls, by the claim's rule: each later
\* call's own matrix multiplies from the left.
RECURSIVE Composed(_)
Composed(n) ==
    IF n = 0 THEN start ELSE matrix_mul(chain[n].alone, Composed(n - 1))

\* The point p after the chain's first n calls have acted on it in call order,
\* the first call first, starting from start * p.
RECURSIVE Applied(_, _)
Applied(n, p) ==
    IF n = 0 THEN matrix_mul_tuple(start, p)
    ELSE matrix_mul_tuple(chain[n].alone, Applied(n - 1, p))

ProbePoints == {P(1, 0, 1), P(2, 3, 4)}

\* C10: a chain of builder calls yields the product in which the last call is
\* the leftmost matrix, M.rotate(r).scale(s).translate(t) = T * S * R * M, so
\* on a point the first call acts first and the last call last.
C10_LastCallOutermost ==
    /\ matrix = Composed(Len(chain))
    /\ \A p \in ProbePoints :
           matrix_mul_tuple(matrix, p) = Applied(Len(chain), p)
    /\ (/\ start = identity
        /\ chain = <<[op |-> "rotate_x", alone |-> rotate_x(identity, QuarterTurn)],
                     [op |-> "scale", alone |-> scale(identity, F(5), F(5), F(5))],
                     [op |-> "translate",
                      alone |-> translate(identity, F(10), F(5), F(7))]>>)
           => matrix_mul_tuple(matrix, P(1, 0, 1)) = P(15, 0, 7)

\* A chain rotate, scale, translate whose order matters, and the test's chain.
C10_Witness ==
    /\ Len(chain) = 3
    /\ chain[1].op = "rotate_x" /\ chain[2].op = "scale"
    /\ chain[3].op = "translate"
    /\ matrix_mul(chain[1].alone, chain[3].alone)
           # matrix_mul(chain[3].alone, chain[1].alone)
    /\ matrix # matrix_mul(start, matrix_mul(chain[1].alone,
                    matrix_mul(chain[2].alone, chain[3].alone)))

(***************************************************************************)
(* hit() on a list of intersections                                        *)
(***************************************************************************)
\* The longest list handed to hit().
MaxIntersections == 4

\* The times of the intersections: behind the ray, at its origin, ahead.
HitTimes == {F(-3), F(0), F(2), F(5)}

\* Two spheres from Sphere::new(), alike but for the ids drawn for them.
HitSpheres == {with_transform(identity, 1), with_transform(identity, 2)}

\* intersections.push(Intersection::new(time, &sphere)).  The borrow a hit()
\* result holds on the Vec has ended when the Vec is pushed to.
Push(limit) ==
    /\ Len(intersections) < limit
    /\ \E time \in HitTimes, object \in HitSpheres :
           intersections' =
               Append(intersections, Intersection_new(time, object))
    /\ found' = NotCalled
    /\ OthersUnchanged("hit")

\* hit(&intersections)
Hit ==
    /\ found = NotCalled
    /\ found' = hit(intersections)
    /\ UNCHANGED intersections
    /\ OthersUnchanged("hit")

InitHit ==
    /\ intersections = <<>>
    /\ found = NotCalled
    /\ OthersIdle("hit")

NextHit ==
    \/ Push(MaxIntersections)
    \/ Hit

SpecHit == InitHit /\ [][NextHit]_vars

\* The intersection a hit() result refers to.
Deref(list, result) == list[result.value + 1]

NonNegative(list) == {i \in 1..Len(list) : ~Lt(list[i].time, Zero)}

\* C1: hit returns the intersection whose time is the smallest among those
\* with time >= 0, and returns nothing exactly when the list is empty or
\* every time in it is negative.
C1_HitSmallestNonNegative ==
    found # NotCalled =>
        /\ found.tag \in {"Some", "None"}
        /\ found.tag = "None" <=> NonNegative(intersections) = {}
        /\ found.tag = "Some" =>
               /\ found.value + 1 \in NonNegative(intersections)
               /\ \A i \in NonNegative(intersections) :
                      Le(Deref(intersections, found).time,
                         intersections[i].time)

\* hit() has passed over a negative time and an earlier, larger time.
C1_Witness ==
    /\ found.tag = "Some"
    /\ found.value > 0
    /\ \E i, j \in 1..Len(intersections) :
           /\ Lt(intersections[i].time, Zero)
           /\ j < found.value + 1
           /\ Lt(Deref(intersections, found).time, intersections[j].time)

\* hit() has found nothing in a list that is not empty.
C1_WitnessNone == found.tag = "None" /\ Len(intersections) >= 2

\* The list in another order: place i holds what place order[i] held.
Reordered(list, order) == Vec(Len(list), LAMBDA i : list[order[i]])

\* What hit() returns for the list: the intersection referred to, or None.
Returned(list) ==
    LET result == hit(list)
    IN  IF result.tag = "Some" THEN Some(Deref(list, result)) ELSE result

\* Two intersections with different spheres share the smallest time >= 0.
TiedSpheres(list) ==
    \E i, j \in NonNegative(list) :
        /\ \A n \in NonNegative(list) : Le(list[i].time, list[n].time)
        /\ list[j].time = list[i].time
        /\ list[j].object # list[i].object

\* C2 as stated: for every list and every reordering of it, hit returns the
\* same intersection, with the same time and the same sphere.
C2_AnyOrderSameIntersection ==
    found # NotCalled =>
        \A order \in Permutations(1..Len(intersections)) :
            Returned(Reordered(intersections, order)) = Returned(intersections)

\* C2, amended: in every order hit returns an intersection with the same
\* time, or nothing in every order; it is the same sphere's unless
\* intersections with different spheres share the smallest time >= 0, when
\* the sphere is that of the first of them in the list.
C2_AnyOrderSameTime ==
    found # NotCalled =>
        LET here == Returned(intersections)
            tied == TiedSpheres(intersections)
        IN  /\ \A order \in Permutations(1..Len(intersections)) :
                   LET there == Returned(Reordered(intersections, order))
                   IN  /\ there.tag = here.tag
                       /\ here.tag = "Some" =>
                              /\ there.value.time = here.value.time
                              /\ ~tied => there = here
            /\ here.tag = "Some" =>
                   \A i \in 1..(found.value + 1) :
                       intersections[i].time = here.value.time
                           => i = found.value + 1

\* hit() was called on a list out of order, of both spheres, without a tie.
C2_Witness ==
    /\ found.tag = "Some"
    /\ Len(intersections) >= 3
    /\ ~TiedSpheres(intersections)
    /\ \E i \in NonNegative(intersections) :
           /\ i < found.value + 1
           /\ intersections[i].object # Deref(intersections, found).object

\* C30: hit treats an intersection whose time is exactly 0 as a valid hit,
\* and when several non-negative intersections share the smallest time it
\* returns the one that comes first in the input list; the returned
\* intersection is always an element of the input list.
C30_ZeroCountsFirstOfTiesWins ==
    found # NotCalled =>
        /\ (\E i \in 1..Len(intersections) : intersections[i].time = Zero) =>
               found.tag = "Some" /\ Deref(intersections, found).time = Zero
        /\ found.tag = "Some" =>
               /\ found.value \in 0..(Len(intersections) - 1)
               /\ Deref(intersections, found) \in
                      {intersections[i] : i \in 1..Len(intersections)}
               /\ \A j \in 1..Len(intersections) :
                      intersections[j].time = Deref(intersections, found).time
                          => found.value + 1 <= j

\* hit() returned the first of two intersections at time 0, of different
\* spheres, that follow an intersection behind the ray.
C30_Witness ==
    /\ found.tag = "Some"
    /\ found.value > 0
    /\ Deref(intersections, found).time = Zero
    /\ Lt(intersections[1].time, Zero)
    /\ \E j \in (found.value + 2)..Len(intersections) :
           /\ intersections[j].time = Zero
           /\ intersections[j].object # Deref(intersections, found).object

(***************************************************************************)
(* Matrix: populate, matrix[r][c] = v, inverse()                           *)
(***************************************************************************)
\* The most cells written into a matrix after it was made.
MaxInserts == 1

InsertValues == {F(0), F(2)}

\* The matrices of the crate's tests, of sizes 2, 3 and 4.
Invertible4 ==
    M(<< <<-5, 2, 6, -8>>, <<1, -5, 1, 8>>, <<7, 7, -6, -7>>, <<1, -3, 7, 4>> >>)

Uninvertible4 ==
    M(<< <<-4, 2, -2, -3>>, <<9, 6, 2, 6>>, <<0, -5, 1, -5>>, <<0, 0, 0, 0>> >>)

Operand1 ==
    M(<< <<3, -9, 7, 3>>, <<3, -8, 2, -9>>, <<-4, 4, 4, 1>>, <<-6, 5, -1, 1>> >>)

Operand2 ==
    M(<< <<8, 2, 2, 2>>, <<3, -1, 7, 0>>, <<7, 0, 5, 4>>, <<6, -2, 0, 5>> >>)

Square3 == M(<< <<1, 2, 6>>, <<-5, 8, -4>>, <<2, 6, 4>> >>)

Square2 == M(<< <<1, 5>>, <<-3, 2>> >>)

Matrices ==
    {Invertible4, Uninvertible4, Operand2, Square3, Square2,
     identity, new(2, 2), new(3, 3)}

\* matrix[row][col] = value, through IndexMut.
Insert(limit) ==
    /\ inverted = NotCalled
    /\ det = NotCalled
    /\ inserts < limit
    /\ \E row \in 1..Len(mat), col \in 1..Len(mat), value \in InsertValues :
           mat' = [mat EXCEPT ![row][col] = value]
    /\ inserts' = inserts + 1
    /\ UNCHANGED <<inverted, det>>
    /\ OthersUnchanged("matrix")

\* mat.inverse(); the result is kept beside the receiver it was computed from.
Invert ==
    /\ inverted = NotCalled
    /\ inverted' = inverse(mat)
    /\ UNCHANGED <<mat, inserts, det>>
    /\ OthersUnchanged("matrix")

InitMatrix ==
    /\ mat \in Matrices
    /\ inserts = 0
    /\ inverted = NotCalled
    /\ det = NotCalled
    /\ OthersIdle("matrix")

NextMatrix ==
    \/ Insert(MaxInserts)
    \/ Invert

SpecMatrix == InitMatrix /\ [][NextMatrix]_vars

\* C8 as stated: inverse() returns a matrix exactly when determinant() != 0
\* and returns None, without a panic, when determinant() = 0; is_invertible()
\* is true exactly when inverse() returns a matrix.
C8_InverseIffDeterminantNonZero ==
    inverted # NotCalled =>
        /\ inverted.tag = "Some" <=> Ne(determinant(mat), Zero)
        /\ Eq(determinant(mat), Zero) => inverted = None
        /\ is_invertible(mat) <=> inverted.tag = "Some"

\* The same for the matrices of three or more rows.
C8_FromThreeRows ==
    (inverted # NotCalled /\ Len(mat) >= 3) =>
        /\ inverted.tag = "Some" <=> Ne(determinant(mat), Zero)
        /\ Eq(determinant(mat), Zero) => inverted = None
        /\ is_invertible(mat) <=> inverted.tag = "Some"

\* inverse() has panicked on a matrix whose determinant is not zero.
C8_Panicked ==
    inverted = Panic /\ Len(mat) = 2 /\ Ne(determinant(mat), Zero)

\* Every cell of a is within EPSILON of the cell of b.
ApproxEqual(a, b) ==
    \A row \in 1..Len(a), col \in 1..Len(a) :
        is_float_equal(a[row][col], b[row][col])

\* The left operands of the products (A * B) * inverse(B).
Operands == {Operand1, Invertible4}

\* C9: for an invertible 4x4 matrix M, M * inverse(M) is the identity within
\* the tolerance, and so (A * B) * inverse(B) = A when B is invertible.
C9_InverseCancels ==
    (inverted.tag = "Some" /\ Len(mat) = 4) =>
        /\ ApproxEqual(matrix_mul(mat, inverted.value), identity)
        /\ \A A \in Operands :
               ApproxEqual(matrix_mul(matrix_mul(A, mat), inverted.value), A)

\* inverse() has returned the inverse of a 4x4 matrix that is not symmetric
\* and is not its own inverse.
C9_Witness ==
    /\ inverted.tag = "Some" /\ Len(mat) = 4
    /\ inverted.value # mat
    /\ transpose(mat) # mat
    /\ Ne(determinant(mat), One)

(***************************************************************************)
(* A ray and a point against a sphere: intersect() and normal_at()         *)
(***************************************************************************)
\* The transforms spheres are made with: those of the crate's tests, two
\* that have no inverse, and ones that turn and shear the sphere.
SphereTransforms ==
    {identity,
     scale(identity, F(2), F(2), F(2)),
     translate(identity, F(5), F(0), F(0)),
     translate(identity, F(0), F(1), F(0)),
     scale(rotate_z(identity, Atan43), F(1), Rat(1, 2), F(1)),
     translate(shear(identity, F(1), F(0), F(0), F(0), F(0), F(0)),
               F(0), F(0), F(-1)),
     scale(identity, F(1), F(0), F(1)),
     new(4, 4)}

\* The numbers rng.gen() draws for the ids.
SphereIds == {1, 2}

Spheres ==
    {with_transform(transform, id) :
         transform \in SphereTransforms, id \in SphereIds}

\* Rays through, beside, inside, behind and at a tangent to the unit sphere;
\* the directions are not zero, and one is not of unit length.
Rays ==
    {Ray_new(P(0, 0, -5), V(0, 0, 1)),
     Ray_new(P(0, 1, -5), V(0, 0, 1)),
     Ray_new(P(0, 2, -5), V(0, 0, 1)),
     Ray_new(P(0, 0, 0), V(0, 0, 1)),
     Ray_new(P(0, 0, 5), V(0, 0, 1)),
     Ray_new(point(Rat(1, 2), Zero, F(-5)), V(0, 0, 1)),
     Ray_new(P(5, 0, -5), V(0, 0, 2)),
     Ray_new(P(-3, 1, 0), V(1, 0, 0)),
     Ray_new(P(2, 3, 4), V(-1, -2, -2))}

\* The world points normals are asked at: on, inside and outside the unit
\* sphere, and at the centres of the spheres.
Points ==
    {P(1, 0, 0), P(0, 1, 0), P(0, 0, 1), P(0, 2, 0), P(1, 1, 1), P(2, -1, 3),
     P(0, 0, 0), P(5, 0, 0), P(0, 0, -1)}

\* ray.intersect(&sphere)
Intersect ==
    /\ \E ray \in Rays :
           call' = [op |-> "intersect", ray |-> ray,
                    result |-> intersect(ray, sphere)]
    /\ UNCHANGED sphere
    /\ OthersUnchanged("ray")

\* sphere.normal_at(&world_point)
NormalAt ==
    /\ \E world_point \in Points :
           call' = [op |-> "normal_at", world_point |-> world_point,
                    result |-> normal_at(sphere, world_point)]
    /\ UNCHANGED sphere
    /\ OthersUnchanged("ray")

Init ==
    /\ sphere \in Spheres
    /\ call = NoCall
    /\ OthersIdle("ray")

Next ==
    \/ Intersect
    \/ NormalAt

Spec == Init /\ [][Next]_vars

\* The ray in the sphere's object space, and its quadratic against the unit
\* sphere there: a, b, c and the discriminant b*b - 4*a*c.
ObjectRay(ray, s) == ray_transform(ray, inverse(s.transform).value)

Quadratic(ray, s) ==
    LET moved == ObjectRay(ray, s)
        oc == [moved.origin EXCEPT !.w = Zero]
        a == dot(moved.direction, moved.direction)
        b == Mul(F(2), dot(moved.direction, oc))
        c == Sub(dot(oc, oc), One)
    IN  [a |-> a, b |-> b, c |-> c,
         discriminant |-> Sub(Mul(b, b), Mul(F(4), Mul(a, c)))]

Intersected == call.op = "intersect"

\* C3: for every ray, intersect returns None, with no panic and no
\* intersections, when the sphere's transform has no inverse.
C3_NoInverseNoIntersection ==
    (Intersected /\ ~is_invertible(sphere.transform)) => call.result = None

\* A ray that goes through the unit sphere was cast at a sphere whose
\* transform has no inverse.
C3_Witness ==
    /\ Intersected
    /\ Eq(determinant(sphere.transform), Zero)
    /\ call.result = None
    /\ unit_sphere_hits(call.ray, sphere).tag = "Some"

\* C4: for every ray and every sphere with an invertible transform,
\* intersect returns None when the discriminant of the ray moved into object
\* space is negative, and otherwise exactly two intersections, each
\* referring to the sphere passed in.
C4_NoneBelowZeroElseTwo ==
    (Intersected /\ is_invertible(sphere.transform)) =>
        IF Lt(Quadratic(call.ray, sphere).discriminant, Zero)
        THEN call.result = None
        ELSE /\ call.result.tag = "Some"
             /\ Len(call.result.value) = 2
             /\ \A i \in 1..2 : call.result.value[i].object = sphere

\* A tangent ray, whose discriminant is zero, got its two intersections.
C4_Witness ==
    /\ Intersected
    /\ is_invertible(sphere.transform)
    /\ Quadratic(call.ray, sphere).discriminant = Zero
    /\ call.result.tag = "Some"

\* A ray missed a sphere whose transform is invertible and not the identity.
C4_WitnessMiss ==
    /\ Intersected
    /\ is_invertible(sphere.transform)
    /\ sphere.transform # identity
    /\ call.result = None

\* C5: the two intersections are at (-b - sqrt(discriminant)) / (2a) and
\* (-b + sqrt(discriminant)) / (2a), in that order, so the first time is at
\* most the second; both are roots of a*t*t + b*t + c; a tangent ray gets
\* two intersections with equal times.
C5_SmallerRootFirst ==
    (Intersected /\ call.result.tag = "Some") =>
        LET f == Quadratic(call.ray, sphere)
            t1 == call.result.value[1].time
            t2 == call.result.value[2].time
            value(t) == Add(Add(Mul(f.a, Mul(t, t)), Mul(f.b, t)), f.c)
        IN  /\ Len(call.result.value) = 2
            /\ t1 = Div(Sub(Neg(f.b), Sqrt(f.discriminant)), Mul(F(2), f.a))
            /\ t2 = Div(Add(Neg(f.b), Sqrt(f.discriminant)), Mul(F(2), f.a))
            /\ Le(t1, t2)
            /\ value(t1) = Zero /\ value(t2) = Zero
            /\ f.discriminant = Zero => Eq(t1, t2)

\* Two different times came from a direction that is not of unit length in
\* object space.
C5_Witness ==
    /\ Intersected /\ call.result.tag = "Some"
    /\ Lt(call.result.value[1].time, call.result.value[2].time)
    /\ Quadratic(call.ray, sphere).a # One
    /\ sphere.transform # identity

\* The times of an intersect() result, or the result itself when it is None.
TimesOf(result) ==
    IF result.tag = "Some"
    THEN Vec(Len(result.value), LAMBDA i : result.value[i].time)
    ELSE result

\* The ray of the crate's tests: from (0, 0, -5) towards (0, 0, 1).
TestRay == Ray_new(P(0, 0, -5), V(0, 0, 1))

\* C6: the ray from (0, 0, -5) towards (0, 0, 1) meets the default sphere at
\* t = 4 and 6, the sphere scaled by 2 at t = 3 and 7, and the sphere
\* translated by (5, 0, 0) not at all; t is measured along the ray as it was
\* given, in world space: the ray's position at t, taken into object space,
\* is on the unit sphere.
C6_TimesAlongWorldRay ==
    Intersected =>
        /\ (call.ray = TestRay /\ sphere.transform = identity)
               => TimesOf(call.result) = <<F(4), F(6)>>
        /\ (call.ray = TestRay
                /\ sphere.transform = scale(identity, F(2), F(2), F(2)))
               => TimesOf(call.result) = <<F(3), F(7)>>
        /\ (call.ray = TestRay
                /\ sphere.transform = translate(identity, F(5), F(0), F(0)))
               => call.result = None
        /\ call.result.tag = "Some" =>
               \A i \in 1..Len(call.result.value) :
                   LET world == position(call.ray, call.result.value[i].time)
                       object == matrix_mul_tuple(
                                     inverse(sphere.transform).value, world)
                       radius == [object EXCEPT !.w = Zero]
                   IN  dot(radius, radius) = One

\* The test's ray met the sphere scaled by 2.
C6_Witness ==
    /\ Intersected
    /\ call.ray = TestRay
    /\ sphere.transform = scale(identity, F(2), F(2), F(2))
    /\ call.result.tag = "Some"

\* The test's ray missed the sphere translated by (5, 0, 0).
C6_WitnessMiss ==
    /\ Intersected
    /\ call.ray = TestRay
    /\ sphere.transform = translate(identity, F(5), F(0), F(0))
    /\ call.result = None

AskedNormal == call.op = "normal_at"

\* The world point the sphere's transform takes the unit sphere's centre to.
Centre(s) == matrix_mul_tuple(s.transform, point(Zero, Zero, Zero))

IsUnitVector(v) == v.w = Zero /\ is_float_equal(magnitude(v), One)

\* C7 as stated: normal_at returns None exactly when the sphere's transform
\* has no inverse; for every invertible transform and every world point the
\* result has w = 0 and magnitude 1 within the tolerance.
C7_UnitNormalAtEveryPoint ==
    AskedNormal =>
        /\ call.result = None <=> ~is_invertible(sphere.transform)
        /\ is_invertible(sphere.transform) =>
               call.result.tag = "Some" /\ IsUnitVector(call.result.value)

\* C7, amended: normal_at returns None exactly when the sphere's transform
\* has no inverse; for every invertible transform and every world point
\* other than the sphere's centre the result has w = 0 and magnitude 1
\* within the tolerance; at the centre every component of it, w too, is NaN.
C7_UnitNormalOffCentre ==
    AskedNormal =>
        /\ call.result = None <=> ~is_invertible(sphere.transform)
        /\ is_invertible(sphere.transform) =>
               /\ call.result.tag = "Some"
               /\ call.world_point # Centre(sphere)
                      => IsUnitVector(call.result.value)
               /\ call.world_point = Centre(sphere)
                      => call.result.value = [x |-> NaN, y |-> NaN,
                                              z |-> NaN, w |-> NaN]

\* A normal was asked off the centre of a sphere that is moved and stretched:
\* without the reset of w the result would not have w = 0.
C7_Witness ==
    /\ AskedNormal
    /\ call.result.tag = "Some"
    /\ call.world_point # Centre(sphere)
    /\ normal_at_keeping_w(sphere, call.world_point) # call.result
    /\ IsUnitVector(call.result.value)

\* A normal was asked at the centre of a sphere.
C7_AtCentre ==
    /\ AskedNormal
    /\ is_invertible(sphere.transform)
    /\ call.world_point = Centre(sphere)

(***************************************************************************)
(* C11, C12: builder calls, step by step                                   *)
(***************************************************************************)
\* The matrix of the call a step makes: the last entry of the chain after it.
NewCall == chain'[Len(chain')].alone

\* C11 as stated: each call prepends its effect, so that its transform is
\* applied to the operand point before the transforms of the calls chained
\* earlier: the new matrix takes p where the old one takes the call's image
\* of p.
C11_NewCallActsFirst ==
    [][\A p \in ProbePoints :
           matrix_mul_tuple(matrix', p)
               = matrix_mul_tuple(matrix, matrix_mul_tuple(NewCall, p))]_vars

\* C11, amended: each call puts its transform outermost, so that it is
\* applied to the operand point after the transforms of the calls chained
\* earlier: the new matrix takes p where the call's matrix takes the old
\* matrix's image of p.
C11_NewCallActsLast ==
    [][\A p \in ProbePoints :
           matrix_mul_tuple(matrix', p)
               = matrix_mul_tuple(NewCall, matrix_mul_tuple(matrix, p))]_vars

\* A call was chained after another with which it does not commute.
C11_Witness ==
    /\ Len(chain) >= 2
    /\ \E p \in ProbePoints :
           LET last == chain[Len(chain)].alone
               before == Composed(Len(chain) - 1)
           IN  matrix_mul_tuple(last, matrix_mul_tuple(before, p))
                   # matrix_mul_tuple(before, matrix_mul_tuple(last, p))

(***************************************************************************)
(* Methods that take &self, and the values they return                     *)
(***************************************************************************)
\* The most values bound to the results of calls on one matrix.
MaxMade == 2

\* A method with a &self receiver that writes its result over the receiver.
InPlace(self, result) == [receiver |-> result, result |-> result]

\* A method with a &self receiver: the receiver is borrowed and is after the
\* call what it was before; what is returned is a value of its own, built in
\* a clone (Mul for &Matrix, transpose, inverse) or a new struct (transform).
Borrowed(self, result) == [receiver |-> self, result |-> result]

MatrixMethods ==
    {"translate", "scale", "rotate_x", "rotate_y", "rotate_z", "shear",
     "transpose", "inverse"}

\* self.method(..), with the arguments of the crate's tests.
Method(op, self) ==
    CASE op = "translate" -> translate(self, F(10), F(5), F(7))
      [] op = "scale" -> scale(self, F(5), F(5), F(5))
      [] op = "rotate_x" -> rotate_x(self, QuarterTurn)
      [] op = "rotate_y" -> rotate_y(self, QuarterTurn)
      [] op = "rotate_z" -> rotate_z(self, QuarterTurn)
      [] op = "shear" -> shear(self, F(1), F(0), F(0), F(0), F(0), F(0))
      [] op = "transpose" -> transpose(self)
      [] op = "inverse" -> inverse(self)

\* The matrices rays are transformed by in scaling_a_ray, translating_a_ray.
RayTransforms ==
    {scale(identity, F(2), F(3), F(4)), translate(identity, F(3), F(4), F(5))}

\* let value = held.method(..)
CallMethod(limit) ==
    /\ Len(made) < limit
    /\ \E op \in MatrixMethods :
           LET out == Borrowed(held, Method(op, held))
           IN  /\ held' = out.receiver
               /\ made' = Append(made, [op |-> op, value |-> out.result,
                                        written |-> FALSE])
    /\ UNCHANGED <<heldRay, movedRay>>
    /\ OthersUnchanged("owned")

\* value[0][3] = 9.0 on one of the matrices returned, through IndexMut.
WriteMade ==
    /\ \E i \in 1..Len(made) :
           /\ made[i].op # "inverse"
           /\ ~made[i].written
           /\ made' = [made EXCEPT ![i].value[1][4] = F(9),
                                   ![i].written = TRUE]
    /\ UNCHANGED <<held, heldRay, movedRay>>
    /\ OthersUnchanged("owned")

\* let moved = heldRay.transform(matrix)
TransformRay ==
    /\ \E transformation \in RayTransforms :
           LET out == Borrowed(heldRay,
                               ray_transform(heldRay, transformation))
           IN  /\ heldRay' = out.receiver
               /\ movedRay' = Some([by |-> transformation,
                                    ray |-> out.result])
    /\ UNCHANGED <<held, made>>
    /\ OthersUnchanged("owned")

InitOwned ==
    /\ held \in {Skewed, Invertible4}
    /\ made = <<>>
    /\ heldRay = Ray_new(P(1, 2, 3), V(0, 1, 0))
    /\ movedRay = NotCalled
    /\ OthersIdle("owned")

NextOwned ==
    \/ CallMethod(MaxMade)
    \/ WriteMade
    \/ TransformRay

SpecOwned == InitOwned /\ [][NextOwned]_vars

HalfRoot2 == Norm(0, 1, 2, 2)

\* The default material, the material of examples/lighted_sphere.rs with a
\* low shininess, and a dull one.
Materials ==
    {Material_new,
     [Material_new EXCEPT !.color = Color_new(One, Rat(1, 5), One),
                          !.shininess = F(2)],
     [color |-> Color_new(Rat(1, 2), Rat(1, 2), Zero), ambient |-> Rat(1, 5),
      diffuse |-> Rat(1, 2), specular |-> Rat(1, 4), shininess |-> F(3)]}

\* In front of the surface, behind it, at 45 degrees, level with it, aside.
LightPositions ==
    {P(0, 0, -10), P(0, 0, 10), P(0, 10, -10), P(0, 10, 0), P(3, 0, -4)}

Intensities == {white, Color_new(Rat(1, 2), One, Rat(1, 4))}

Eyes ==
    {V(0, 0, -1), vector(Zero, Neg(HalfRoot2), Neg(HalfRoot2)),
     vector(Zero, HalfRoot2, Neg(HalfRoot2))}

Normals == {V(0, 0, -1), V(0, 1, 0)}

\* dot(reflection_direction, eye) for a scene, whatever the light's side.
ReflectDotEye(sc) ==
    LET light_direction == normalize(sub(sc.light.position, sc.position))
    IN  dot(neg(reflect(light_direction, sc.normal)), sc.eye)

\* The scenes whose specular factor the model's numbers hold: a shininess of
\* 200 raises only 1 (full alignment), or the branch is not taken.
Scenes ==
    {sc \in {Scene(material, PointLight_new(at, intensity), P(0, 0, 0),
                   eye, normal) :
                 material \in Materials, at \in LightPositions,
                 intensity \in Intensities, eye \in Eyes,
                 normal \in Normals} :
        sc.material.shininess = F(200) =>
            (Le(ReflectDotEye(sc), Zero) \/ ReflectDotEye(sc) = One)}

\* lighting(material, light, position, eye, normal)
Light ==
    /\ lit' = [terms |-> lighting_terms(scene.material, scene.light,
                                        scene.position, scene.eye,
                                        scene.normal),
               color |-> lighting(scene.material, scene.light,
                                  scene.position, scene.eye, scene.normal)]
    /\ UNCHANGED scene
    /\ OthersUnchanged("light")

InitLight ==
    /\ scene \in Scenes
    /\ lit = NotCalled
    /\ OthersIdle("light")

NextLight == Light

SpecLight == InitLight /\ [][NextLight]_vars

Lit == lit # NotCalled

\* dot(light_dir, normal) for the scene.
LightDotNormal ==
    dot(normalize(sub(scene.light.position, scene.position)), scene.normal)

\* The color with each component of a combined with that of b, and the color
\* with each component scaled.
Combined(a, b, Op(_, _)) ==
    [red |-> Op(a.red, b.red), green |-> Op(a.green, b.green),
     blue |-> Op(a.blue, b.blue)]

Scaled(a, factor) == Combined(a, Color_new(factor, factor, factor), Mul)

\* effective_color is e, and the ambient and diffuse terms derive from it.
DerivedFrom(e) ==
    /\ lit.terms.effective_color = e
    /\ lit.terms.ambient = Scaled(e, scene.material.ambient)
    /\ Lt(Zero, LightDotNormal) =>
           lit.terms.diffuse
               = Scaled(Scaled(e, scene.material.diffuse), LightDotNormal)

\* C13 as stated: lighting computes effective_color as the component-wise
\* product of material.color and light.intensity, for every material and
\* light, and derives the ambient and diffuse terms from that product.
C13_EffectiveColorIsProduct ==
    Lit => DerivedFrom(Combined(scene.material.color,
                                scene.light.intensity, Mul))

\* C13, amended: lighting computes effective_color as the component-wise sum
\* of material.color and light.intensity, for every material and light, and
\* derives the ambient and diffuse terms from that sum.
C13_EffectiveColorIsSum ==
    Lit => DerivedFrom(Combined(scene.material.color,
                                scene.light.intensity, Add))

\* A surface that is not black was lit from its front by a light that is not
\* white.
C13_Witness ==
    /\ Lit
    /\ scene.material.color # black
    /\ scene.light.intensity # white
    /\ Lt(Zero, LightDotNormal)
    /\ lit.terms.diffuse # black

\* The scene of lighting_with_light_behind_surface.
BehindScene ==
    Scene(Material_new, PointLight_new(P(0, 0, 10), white), P(0, 0, 0),
          V(0, 0, -1), V(0, 0, -1))

\* C14: when dot(light_dir, normal) <= 0 lighting returns the ambient term
\* alone, with diffuse and specular both black; for the default material, a
\* white light at (0, 0, 10), the surface point at the origin and the normal
\* (0, 0, -1) the result is the color (0.1, 0.1, 0.1).
C14_AmbientAloneBehind ==
    Lit =>
        /\ Le(LightDotNormal, Zero) =>
               /\ lit.terms.diffuse = black
               /\ lit.terms.specular = black
               /\ lit.color = lit.terms.ambient
        /\ scene = BehindScene =>
               lit.color = Color_new(Rat(1, 10), Rat(1, 10), Rat(1, 10))

\* The light is level with the surface, dot(light_dir, normal) = 0, and its
\* reflection points towards the eye.
C14_Witness ==
    /\ Lit
    /\ LightDotNormal = Zero
    /\ Lt(Zero, ReflectDotEye(scene))
    /\ lit.color # black

\* The test's scene was lit.
C14_WitnessBehind == Lit /\ scene = BehindScene

\* The scene of lighting_with_the_eye_between_the_light_and_surface.
BetweenScene ==
    Scene(Material_new, PointLight_new(P(0, 0, -10), white), P(0, 0, 0),
          V(0, 0, -1), V(0, 0, -1))

\* C15: with the default material (color black, ambient 0.1, diffuse 0.9,
\* specular 0.9, shininess 200), a white light at (0, 0, -10), the surface
\* point at the origin, normal (0, 0, -1) and eye (0, 0, -1), lighting
\* returns ambient + diffuse + specular, unclamped: (1.9, 1.9, 1.9).
C15_FullAlignment ==
    (Lit /\ scene = BetweenScene) =>
        /\ scene.material
               = [color |-> black, ambient |-> Rat(1, 10),
                  diffuse |-> Rat(9, 10), specular |-> Rat(9, 10),
                  shininess |-> F(200)]
        /\ lit.terms.ambient = Color_new(Rat(1, 10), Rat(1, 10), Rat(1, 10))
        /\ lit.terms.diffuse = Color_new(Rat(9, 10), Rat(9, 10), Rat(9, 10))
        /\ lit.terms.specular = Color_new(Rat(9, 10), Rat(9, 10), Rat(9, 10))
        /\ lit.color = Color_new(Rat(19, 10), Rat(19, 10), Rat(19, 10))

C15_Witness == Lit /\ scene = BetweenScene /\ Lt(One, lit.color.red)

\* reflect(-light_dir, normal), with reflect(incoming, normal) written out as
\* incoming - normal * 2 * dot(incoming, normal).
ReflectedLight ==
    LET light_dir == normalize(sub(scene.light.position, scene.position))
        incoming == neg(light_dir)
    IN  sub(incoming,
            mul_scalar(scene.normal, Mul(F(2), dot(incoming, scene.normal))))

\* C27: the reflection direction lighting uses, the negation of
\* reflect(light_dir, normal), equals reflect(-light_dir, normal) for every
\* light direction and normal, and specular is black whenever its dot product
\* with the eye vector is <= 0.
C27_ReflectionOfNegatedLight ==
    Lit =>
        /\ neg(reflect(normalize(sub(scene.light.position, scene.position)),
                       scene.normal)) = ReflectedLight
        /\ lit.terms.reflection_direction # NotCalled =>
               lit.terms.reflection_direction = Some(ReflectedLight)
        /\ Le(dot(ReflectedLight, scene.eye), Zero) =>
               lit.terms.specular = black

\* A surface lit from its front whose reflection points away from the eye.
C27_Witness ==
    /\ Lit
    /\ lit.terms.reflection_direction # NotCalled
    /\ lit.terms.diffuse # black
    /\ Lt(dot(ReflectedLight, scene.eye), Zero)

\* The reflection is at a right angle to the eye: the dot product is 0.
C27_WitnessZero ==
    /\ Lit
    /\ lit.terms.reflection_direction # NotCalled
    /\ dot(ReflectedLight, scene.eye) = Zero

(***************************************************************************)
(* SpecCanvas: writes to a canvas and reads of its pixels                  *)
(***************************************************************************)
\* Color::red
Color_red == Color_new(One, Zero, Zero)

\* The (width, height) canvases are made with.
Sizes == {<<3, 2>>, <<0, 2>>}

\* Points with integer coordinates in and around those canvases.
CanvasPoints == {P(x, y, 0) : x \in -1..3, y \in -1..2}

\* The points pixels are read at: those of the largest canvas, and two past
\* its last row.
ReadPoints == {P(x, y, 0) : x \in 0..2, y \in 0..1} \cup {P(0, 2, 0), P(1, 2, 0)}

WriteColors == {Color_red, black}

\* canvas.write_pixel(&point, pixel)
WritePixel(points, colors) ==
    /\ \E point_ \in points, pixel \in colors :
           /\ canvas' = write_pixel(canvas, point_, pixel)
           /\ written' = [point |-> point_, pixel |-> pixel,
                          changed |-> canvas' # canvas]
    /\ canvasCall' = NoCall
    /\ OthersUnchanged("canvas")

\* canvas.pixel_at(&point)
PixelAt ==
    /\ \E point_ \in ReadPoints :
           canvasCall' = [op |-> "pixel_at", point |-> point_,
                          result |-> pixel_at(canvas, point_)]
    /\ UNCHANGED <<canvas, written>>
    /\ OthersUnchanged("canvas")

InitCanvas ==
    /\ \E size \in Sizes : canvas = Canvas_new(size[1], size[2])
    /\ written = NotCalled
    /\ canvasCall = NoCall
    /\ OthersIdle("canvas")

NextCanvas == WritePixel(CanvasPoints, WriteColors) \/ PixelAt

SpecCanvas == InitCanvas /\ [][NextCanvas]_vars

Wrote == written # NotCalled

\* The point's x is outside [0, width) or its y is outside [0, height).
Outside(self, point_) ==
    \/ Lt(point_.x, Zero)
    \/ Le(F(self.width), point_.x)
    \/ Lt(point_.y, Zero)
    \/ Le(F(self.height), point_.y)

\* C16 as stated: for every canvas of width W and height H and every point
\* whose x is outside [0, W) or whose y is outside [0, H), write_pixel
\* changes no pixel of the canvas, after any sequence of earlier writes.
C16_OutsideWriteChangesNothing ==
    (Wrote /\ Outside(canvas, written.point)) => ~written.changed

\* A write at x = width, on a row that is not the last, changed the first
\* pixel of the next row.
C16_Aliased ==
    /\ Wrote
    /\ written.changed
    /\ written.point.x = F(canvas.width)
    /\ Outside(canvas, written.point)
    /\ pixel_at(canvas, P(0, as_i32(written.point.y) + 1, 0))
           = Some(written.pixel)

\* The latest step was a write_pixel at a point inside the canvas.
WroteInside == Wrote /\ ~Outside(canvas, written.point)

\* C17: after write_pixel(p, c) with p inside the canvas pixel_at(p) returns
\* c and every other pixel keeps its previous value; a new canvas has exactly
\* width * height pixels, all black, and the pixel count never changes under
\* any sequence of write_pixel calls.
C17_WriteThenRead ==
    /\ [](/\ (WroteInside /\ canvasCall # NoCall
                 /\ canvasCall.point = written.point)
              => canvasCall.result = Some(written.pixel)
          /\ ~Wrote =>
                 \A i \in 1..Len(canvas.pixels) : canvas.pixels[i] = black
          /\ Len(canvas.pixels) = canvas.width * canvas.height)
    /\ [][/\ Len(canvas'.pixels) = Len(canvas.pixels)
          /\ (canvasCall' = NoCall /\ ~Outside(canvas, written'.point)) =>
                 \A i \in 1..Len(canvas.pixels) :
                     i # (as_i32(written'.point.y) * canvas.width
                              + as_i32(written'.point.x) + 1)
                         => canvas'.pixels[i] = canvas.pixels[i]]_vars

\* A pixel written inside a canvas that earlier writes had changed elsewhere
\* was read back.
C17_Witness ==
    /\ WroteInside
    /\ written.changed
    /\ canvasCall # NoCall
    /\ canvasCall.point = written.point
    /\ canvasCall.result = Some(Color_red)
    /\ \E q \in CanvasPoints :
           q # written.point /\ pixel_at(canvas, q) = Some(Color_red)

(***************************************************************************)
(* SpecPpm: the PPM text of painted canvases                               *)
(***************************************************************************)
\* The canvas after write_pixel(point(x, y, 0), color) for pixel k on, row
\* by row, as the loop of canvas_to_ppm_lines_do_not_exceed_70_chars does.
RECURSIVE Paint(_, _, _)
Paint(self, k, color) ==
    IF k >= self.width * self.height THEN self
    ELSE Paint(write_pixel(self, P(k % self.width, k \div self.width, 0),
                           color),
               k + 1, color)

\* The color that test paints with.
Peach == Color_new(One, Rat(4, 5), Rat(3, 5))

\* The canvases of the to_ppm tests, and one without pixels.
Painted ==
    {Canvas_new(5, 3), Canvas_new(10, 2), Canvas_new(0, 0),
     Paint(Canvas_new(10, 2), 0, Peach), Paint(Canvas_new(5, 3), 0, Peach)}

\* Points written before the text is taken, and colors whose scaled values
\* have one, two and three digits.
PpmPoints == {P(0, 0, 0), P(6, 0, 0), P(2, 1, 0), P(4, 2, 0)}

PpmColors ==
    {Color_new(Rat(3, 2), Zero, Zero), Color_new(Zero, Rat(1, 2), Zero),
     Color_new(Rat(-1, 2), Rat(1, 10), One)}

\* canvas.to_ppm()
ToPpm ==
    /\ canvasCall' = [op |-> "to_ppm", result |-> to_ppm(canvas)]
    /\ UNCHANGED <<canvas, written>>
    /\ OthersUnchanged("canvas")

InitPpm ==
    /\ canvas \in Painted
    /\ written = NotCalled
    /\ canvasCall = NoCall
    /\ OthersIdle("canvas")

NextPpm == WritePixel(PpmPoints, PpmColors) \/ ToPpm

SpecPpm == InitPpm /\ [][NextPpm]_vars

\* The places of the "\n" that end the lines of the text to_ppm returned.
LineEnds ==
    {k \in 1..Len(canvasCall.result) : canvasCall.result[k] = "\n"}

\* The number of the line that ends at k, and its length without the "\n".
LineNumber(k) == Cardinality({j \in LineEnds : j <= k})

LineLength(k) ==
    LET earlier == {j \in LineEnds : j < k}
        before == IF earlier = {} THEN 0
                  ELSE CHOOSE j \in earlier : \A i \in earlier : i <= j
    IN  k - before - 1

\* C18: no line of to_ppm's output is longer than 70 characters, for every
\* canvas size and pixel content: neither the first line of values nor any
\* line started after a wrap (nor a header line).
C18_LinesAtMost70 ==
    canvasCall # NoCall =>
        /\ canvasCall.result[Len(canvasCall.result)] = "\n"
        /\ \A k \in LineEnds : LineLength(k) <= 70

\* The text has a line of exactly 70 characters that was started by a wrap
\* and ended by one.
C18_Witness ==
    /\ canvasCall # NoCall
    /\ \E k \in LineEnds :
           /\ LineLength(k) = 70
           /\ LineNumber(k) >= 5
           /\ k < Len(canvasCall.result)

\* The header to_ppm writes for the canvas.
PpmHeader ==
    <<"P", "3", "\n">> \o to_string(canvas.width) \o <<" ">>
        \o to_string(canvas.height) \o <<"\n", "2", "5", "5", "\n">>

\* The places, from first on, of the spaces and newlines of a text; each of
\* them ends a value.
ValueEnds(text, first) ==
    {k \in first..Len(text) : text[k] \in {" ", "\n"}}

\* The value that ends at k: the characters after the separator before it.
ValueText(text, first, k) ==
    LET before ==
            CHOOSE j \in (first - 1)..(k - 1) :
                /\ j = first - 1 \/ text[j] \in {" ", "\n"}
                /\ \A i \in (j + 1)..(k - 1) : text[i] \notin {" ", "\n"}
    IN  SubSeq(text, before + 1, k - 1)

\* Value number n of the canvas: red, green, blue of each pixel, row by row,
\* as the whole number of 0..255 that stands for it.
PixelValue(n) ==
    LET x == ((n - 1) \div 3) % canvas.width
        y == ((n - 1) \div 3) \div canvas.width
        color == pixel_at(canvas, P(x, y, 0)).value
        component == <<color.red, color.green, color.blue>>[((n - 1) % 3) + 1]
    IN  scale_value(component, 255)

\* The text from first on holds the values of the canvas, one before each of
\* the separators at ends, and nothing else.
BodyHoldsValues(text, first, ends) ==
    /\ Cardinality(ends) = 3 * canvas.width * canvas.height
    /\ first <= Len(text) => Len(text) \in ends
    /\ \A k \in ends :
           LET value == PixelValue(Cardinality({j \in ends : j <= k}))
           IN  /\ ValueText(text, first, k) # <<>>
               /\ value \in 0..255
               /\ ValueText(text, first, k) = to_string(value)

\* C28: to_ppm's output begins with the three header lines P3, "width height"
\* and 255, ends with a newline, and its body holds exactly 3 * width * height
\* values in pixel order (red, green, blue of each pixel, row by row), each in
\* 0..255, separated by single spaces or newlines, with no value dropped,
\* duplicated or split by the line wrapping.
C28_HeaderAndAllValues ==
    canvasCall # NoCall =>
        /\ SubSeq(canvasCall.result, 1, Len(PpmHeader)) = PpmHeader
        /\ canvasCall.result[Len(canvasCall.result)] = "\n"
        /\ BodyHoldsValues(canvasCall.result, Len(PpmHeader) + 1,
                           ValueEnds(canvasCall.result, Len(PpmHeader) + 1))

ValuesOfLength(text, first, ends, length) ==
    {k \in ends : Len(ValueText(text, first, k)) = length}

\* The text of a painted 10x2 canvas whose values fill four lines, one of its
\* pixels written since; it has values of two and of three digits.
C28_Witness ==
    /\ canvasCall # NoCall
    /\ written # NotCalled
    /\ written.changed
    /\ canvas.width = 10
    /\ Cardinality(LineEnds) >= 7
    /\ \A length \in {2, 3} :
           ValuesOfLength(canvasCall.result, Len(PpmHeader) + 1,
                          ValueEnds(canvasCall.result, Len(PpmHeader) + 1),
                          length) # {}

(***************************************************************************)
(* SpecScale: scale_value                                                  *)
(***************************************************************************)
\* The values of scale_value_clamps_values_bewteen_zero_and_max, the ends of
\* [0, 1], values next to them, and the values that are no number.
ScaleValues ==
    {Rat(1, 2), Rat(3, 2), Rat(-1, 10), Rat(9, 10), Rat(1, 10), Rat(2, 5),
     Zero, One, Rat(1, 256), Rat(255, 256), Rat(511, 512), Rat(1, 512),
     Rat(-1, 512), Rat(257, 256), Rat(1, 3), Rat(2, 3), Rat(4, 5),
     Rat(3, 5), F(-3), F(2), F(1000), Rat(-1, 2), Rat(99, 100),
     Infinity(1), Infinity(-1), NaN}

\* The largest values to scale to: MAX_PPM_VALUE and smaller ones.
ScaleMaxima == {0, 1, 9, MAX_PPM_VALUE}

\* scale_value(value, max)
ScaleValue ==
    /\ scaling.result = NotCalled
    /\ scaling' = [scaling EXCEPT
                       !.result = Some(scale_value(scaling.value,
                                                   scaling.max))]
    /\ OthersUnchanged("scale")

InitScale ==
    /\ \E value \in ScaleValues, max \in ScaleMaxima :
           scaling = [value |-> value, max |-> max, result |-> NotCalled]
    /\ OthersIdle("scale")

NextScale == ScaleValue

SpecScale == InitScale /\ [][NextScale]_vars

WasScaled == scaling.result # NotCalled

\* C19: scale_value(v, max) always returns an integer in [0, max]: every
\* v <= 0 maps to 0, every v >= 1 maps to max, and a v in between maps to
\* the integer part of v * (max + 1).
C19_ScaledWithinRange ==
    WasScaled =>
        LET v == scaling.value
            max == scaling.max
            scaled == scaling.result.value
            product == Mul(v, F(max + 1))
        IN  /\ scaled \in 0..max
            /\ Le(v, Zero) => scaled = 0
            /\ Le(One, v) => scaled = max
            /\ (Lt(Zero, v) /\ Lt(v, One)) =>
                   Le(F(scaled), product) /\ Lt(product, F(scaled + 1))

\* A value between 0 and 1 whose product with max + 1 is no integer was
\* scaled to a value that is neither 0 nor max.
C19_Witness ==
    /\ WasScaled
    /\ Lt(Zero, scaling.value)
    /\ Lt(scaling.value, One)
    /\ scaling.result.value \in 1..(scaling.max - 1)
    /\ F(scaling.result.value) # Mul(scaling.value, F(scaling.max + 1))

\* A value above 1 and a value that is no number were scaled.
C19_WitnessClamped ==
    /\ WasScaled
    /\ scaling.value \in {Rat(3, 2), NaN}
    /\ scaling.max = MAX_PPM_VALUE

(***************************************************************************)
(* SpecSphere: spheres constructed one after another                       *)
(***************************************************************************)
\* The most spheres constructed.
MaxSpheres == 3

\* The numbers rng.gen() may return for an id; each call draws one of them
\* afresh, whatever the earlier calls drew.
DrawnIds == {1, 2, 3}

\* The transforms spheres are made with.
GivenTransforms == {scale(identity, F(2), F(2), F(2))}

\* created.push(Sphere::new())
New ==
    /\ Len(created) < MaxSpheres
    /\ \E id \in DrawnIds : created' = Append(created, Sphere_new(id))
    /\ OthersUnchanged("sphere")

\* created.push(Sphere::with_transform(transform))
WithTransform ==
    /\ Len(created) < MaxSpheres
    /\ \E id \in DrawnIds, transform \in GivenTransforms :
           created' = Append(created, with_transform(transform, id))
    /\ OthersUnchanged("sphere")

InitSphere == created = <<>> /\ OthersIdle("sphere")

NextSphere == New \/ WithTransform

SpecSphere == InitSphere /\ [][NextSphere]_vars

\* C20 as stated: any two spheres created by separate constructor calls have
\* different ids and compare unequal, even when their transform and material
\* are identical, for every sequence of sphere creations.
C20_SpheresDistinct ==
    \A i, j \in 1..Len(created) :
        i # j => created[i].id # created[j].id /\ created[i] # created[j]

\* Two calls of Sphere::new() returned spheres that compare equal.
C20_Twins ==
    \E i, j \in 1..Len(created) :
        /\ i < j
        /\ created[i] = created[j]
        /\ created[i].transform = identity

(***************************************************************************)
(* SpecTuple: the arithmetic and the comparisons of tuples                 *)
(***************************************************************************)
\* Points and vectors of the tuple tests, the zero vector and the origin.
Tuples ==
    {V(1, 2, 3), V(2, 3, 4), V(0, 0, 0), V(3, 4, 0), V(-2, 3, 1),
     P(3, 2, 1), P(5, 6, 7), P(0, 0, 0), P(-2, 3, 1), P(3, 4, 0)}

\* Distances between the components of tuples that are compared: none, below
\* EPSILON, EPSILON, and above it.
Nudges == {Zero, Rat(1, 1000000), Rat(-9, 1000000), EPSILON, Rat(1, 50000)}

Components == {"x", "y", "z", "w"}

Nudged(self, component, by) ==
    [self EXCEPT ![component] = Add(self[component], by)]

\* lhs.cross(&rhs) and rhs.cross(&lhs)
Cross ==
    /\ tupleOut' = [op |-> "cross", result |-> cross(lhs, rhs),
                    reversed |-> cross(rhs, lhs)]
    /\ UNCHANGED <<lhs, rhs>>
    /\ OthersUnchanged("tuple")

\* lhs.normalize()
Normalize ==
    /\ tupleOut' = [op |-> "normalize", result |-> normalize(lhs)]
    /\ UNCHANGED <<lhs, rhs>>
    /\ OthersUnchanged("tuple")

\* lhs + rhs, and (lhs + rhs) - rhs
AddSub ==
    /\ tupleOut' = [op |-> "add", result |-> add(lhs, rhs),
                    back |-> sub(add(lhs, rhs), rhs)]
    /\ UNCHANGED <<lhs, rhs>>
    /\ OthersUnchanged("tuple")

\* lhs - rhs
Subtract ==
    /\ tupleOut' = [op |-> "sub", result |-> sub(lhs, rhs)]
    /\ UNCHANGED <<lhs, rhs>>
    /\ OthersUnchanged("tuple")

\* lhs.is_equal(&other) and lhs == other, for rhs and for tuples near lhs
Compare ==
    /\ \E other \in {rhs} \cup {Nudged(lhs, component, by) :
                                    component \in Components, by \in Nudges} :
           tupleOut' = [op |-> "compare", other |-> other,
                        is_equal |-> is_equal(lhs, other),
                        eq |-> tuple_eq(lhs, other)]
    /\ UNCHANGED <<lhs, rhs>>
    /\ OthersUnchanged("tuple")

InitTuple ==
    /\ lhs \in Tuples
    /\ rhs \in Tuples
    /\ tupleOut = NoCall
    /\ OthersIdle("tuple")

NextTuple == Cross \/ Normalize \/ AddSub \/ Subtract \/ Compare

SpecTuple == InitTuple /\ [][NextTuple]_vars

Did(op) == tupleOut.op = op

IsPoint(self) == self.w = One

IsVector(self) == self.w = Zero

\* C21 as stated: cross and normalize always return a tuple with w = 0, for
\* every input tuple they are called on.
C21_CrossAndNormalizeGiveW0 ==
    (Did("cross") \/ Did("normalize")) => tupleOut.result.w = Zero

\* C21, amended: cross always returns a tuple with w = 0, for every input
\* tuple; normalize returns w divided by the magnitude, which is 0 for every
\* vector that is not the zero vector and not 0 for a point (NaN for the zero
\* vector).
C21_NormalizeDividesW ==
    /\ Did("cross") => tupleOut.result.w = Zero /\ tupleOut.reversed.w = Zero
    /\ Did("normalize") =>
           /\ tupleOut.result.w = Div(lhs.w, magnitude(lhs))
           /\ (IsVector(lhs) /\ lhs # V(0, 0, 0)) => tupleOut.result.w = Zero
           /\ IsPoint(lhs) => tupleOut.result.w # Zero
           /\ lhs = V(0, 0, 0) => IsNaN(tupleOut.result.w)

\* A point was normalized.
C21_Witness == Did("normalize") /\ IsPoint(lhs) /\ lhs # P(0, 0, 0)

\* Two points were crossed.
C21_WitnessCross ==
    Did("cross") /\ IsPoint(lhs) /\ IsPoint(rhs)
        /\ tupleOut.result # V(0, 0, 0)

\* C22: for all points P and vectors V, P + V is a point (w = 1), (P + V) - V
\* equals P, P - V is a point, and the difference of two points is a vector
\* (w = 0), with P - P the zero vector.
C22_PointsAndVectors ==
    /\ (Did("add") /\ IsPoint(lhs) /\ IsVector(rhs)) =>
           /\ IsPoint(tupleOut.result)
           /\ tuple_eq(tupleOut.back, lhs)
           /\ is_equal(tupleOut.back, lhs)
    /\ (Did("sub") /\ IsPoint(lhs) /\ IsVector(rhs)) =>
           IsPoint(tupleOut.result)
    /\ (Did("sub") /\ IsPoint(lhs) /\ IsPoint(rhs)) =>
           /\ IsVector(tupleOut.result)
           /\ lhs = rhs => tupleOut.result = V(0, 0, 0)

\* A vector that is not zero was added to a point and subtracted again.
C22_Witness ==
    /\ Did("add")
    /\ IsPoint(lhs)
    /\ IsVector(rhs)
    /\ tupleOut.result # lhs
    /\ tupleOut.back = lhs

\* A point was subtracted from itself.
C22_WitnessSelf == Did("sub") /\ IsPoint(lhs) /\ lhs = rhs /\ lhs # P(0, 0, 0)

\* Each of the four components of the two tuples differs by less than 1e-5.
Near(a, b) ==
    \A component \in Components :
        Lt(FAbs(Sub(a[component], b[component])), Rat(1, 100000))

\* C23 as stated: every comparison of two tuples, through is_equal and
\* through the == operator alike, treats them as equal exactly when each of
\* the four components differs by less than 1e-5.
C23_BothComparisonsTolerant ==
    Did("compare") =>
        /\ tupleOut.is_equal <=> Near(lhs, tupleOut.other)
        /\ tupleOut.eq <=> Near(lhs, tupleOut.other)

\* Two tuples less than 1e-5 apart were compared: is_equal found them equal,
\* == did not.
C23_ExactOperator ==
    /\ Did("compare")
    /\ Near(lhs, tupleOut.other)
    /\ tupleOut.is_equal
    /\ ~tupleOut.eq

\* C24: cross is anti-commutative: for all vectors A and B, cross(A, B)
\* equals the negation of cross(B, A).
C24_CrossAntiCommutes ==
    Did("cross") =>
        /\ tuple_eq(tupleOut.result, neg(tupleOut.reversed))
        /\ is_equal(tupleOut.result, neg(tupleOut.reversed))

\* Two vectors whose cross product is not zero were crossed both ways.
C24_Witness ==
    /\ Did("cross")
    /\ IsVector(lhs)
    /\ IsVector(rhs)
    /\ tupleOut.result # V(0, 0, 0)
    /\ tupleOut.result # tupleOut.reversed

(***************************************************************************)
(* SpecDeterminant: determinant() of the matrices of SpecMatrix            *)
(***************************************************************************)
\* mat.determinant()
Determinant ==
    /\ det = NotCalled
    /\ det' = IF determinant_panics(mat) THEN Panic
              ELSE Some(determinant(mat))
    /\ UNCHANGED <<mat, inserts, inverted>>
    /\ OthersUnchanged("matrix")

NextDeterminant ==
    \/ Insert(MaxInserts)
    \/ Determinant

SpecDeterminant == InitMatrix /\ [][NextDeterminant]_vars

\* The sum of the numbers term[e] for e in a set.
RECURSIVE SumOver(_, _)
SumOver(set, term) ==
    IF set = {} THEN Zero
    ELSE LET e == CHOOSE x \in set : TRUE
         IN  Add(term[e], SumOver(set \ {e}, term))

\* The determinant as the sum, over the permutations of the columns, of the
\* signed products of one cell from each row.
Leibniz(m) ==
    LET n == Len(m)
        inversions(s) ==
            Cardinality({pair \in (1..n) \X (1..n) :
                             pair[1] < pair[2] /\ s[pair[1]] > s[pair[2]]})
        product(s) ==
            LET upto[i \in 0..n] ==
                    IF i = 0 THEN One ELSE Mul(upto[i - 1], m[i][s[i]])
            IN  upto[n]
        signed(s) ==
            IF inversions(s) % 2 = 0 THEN product(s) ELSE Neg(product(s))
    IN  SumOver(Permutations(1..n),
                [s \in Permutations(1..n) |-> signed(s)])

\* The expansion along row 0 the claim states, with the determinants of the
\* submatrices taken from the definition above.
RowExpansion(m) ==
    LET term(col) ==
            LET below == Leibniz(submatrix(m, 0, col))
            IN  Mul(IF col % 2 = 0 THEN below ELSE Neg(below), At(m, 0, col))
    IN  SumOver(0..(Len(m) - 1), [col \in 0..(Len(m) - 1) |-> term(col)])

\* C25: for every square matrix of size 2, 3 or 4, determinant() equals the
\* mathematical determinant: a*d - b*c for 2x2, and for larger sizes the sum
\* over the columns of row 0 of cofactor(0, col) * value, the cofactor being
\* the determinant of the submatrix, negated when row + col is odd; the
\* recursion ends at the 2x2 case, so a value is always returned.
C25_DeterminantIsMathematical ==
    (det # NotCalled /\ Len(mat) \in 2..4) =>
        /\ det.tag = "Some"
        /\ det.value = Leibniz(mat)
        /\ Len(mat) = 2 =>
               det.value = Sub(Mul(mat[1][1], mat[2][2]),
                               Mul(mat[1][2], mat[2][1]))
        /\ Len(mat) > 2 => det.value = RowExpansion(mat)

\* determinant() was called on a 4x4 matrix and returned a number that is
\* not zero; the matrix has a cell set through IndexMut.
C25_Witness ==
    /\ det # NotCalled
    /\ Len(mat) = 4
    /\ inserts > 0
    /\ det.value # Zero

\* The determinants of the crate's tests: -4071, -196 and 17.
C25_WitnessTests ==
    /\ det # NotCalled
    /\ inserts = 0
    /\ \/ mat = Square2 /\ det.value = F(17)
       \/ mat = Square3 /\ det.value = F(-196)

(***************************************************************************)
(* SpecRender: the render loops of examples/2d_circle.rs and               *)
(* examples/lighted_sphere.rs                                              *)
(***************************************************************************)
Examples == {"2d_circle", "lighted_sphere"}

\* The loop body up to `let ray`: the ray cast from the eye through the spot
\* of the wall that pixel (x, y) stands for.  2d_circle.rs mirrors world_x.
pixel_ray(example, canvas_pixels, x, y) ==
    LET ray_origin == point(Zero, Zero, F(-5))
        wall_z == F(10)
        wall_size == F(8)
        world_pixel_size == Div(wall_size, F(canvas_pixels))
        half_wall_size == Div(wall_size, F(2))
        world_y == Sub(half_wall_size, Mul(world_pixel_size, F(y)))
        world_x == IF example = "2d_circle"
                   THEN Sub(half_wall_size, Mul(world_pixel_size, F(x)))
                   ELSE Add(Neg(half_wall_size), Mul(world_pixel_size, F(x)))
        world_position == point(world_x, world_y, wall_z)
    IN  Ray_new(ray_origin, normalize(sub(world_position, ray_origin)))

\* The Color a call of lighting() returns, held as the call itself: with
\* shininess 200 its specular term is the 200th power of an irrational.
Lighting(material, light, position_, eye, normal) ==
    [lighting |-> Scene(material, light, position_, eye, normal)]

\* What one run of the loop body leaves: the canvas and what its calls
\* returned (NotCalled for a call it did not reach).
Body(canvas_, intersections_, hit_, normal) ==
    [canvas |-> canvas_, intersections |-> intersections_, hit |-> hit_,
     normal |-> normal]

\* `let name = value;` followed by the code using name: value is worked out
\* once, then Rest is worked out for it.
Bind(value, Rest(_)) == CHOOSE result \in {Rest(name) : name \in {value}} : TRUE

\* The loop body writing the pixel whenever intersect returned intersections.
render_pixel_unless_missed(example, built, self, x, y) ==
    Bind(intersect(pixel_ray(example, built.canvas_pixels, x, y),
                   built.sphere),
         LAMBDA found_ :
             IF found_.tag # "Some"
             THEN Body(self, found_, NotCalled, NotCalled)
             ELSE Body(write_pixel(self, point(F(x), F(y), Zero), Color_red),
                       found_, hit(found_.value), NotCalled))

\* The lines of lighted_sphere.rs inside its two `if let`: the pixel is
\* written with the Color lighting() returns.  A normal of None is the run
\* in which unwrap() panics, before anything is written.
shade_pixel(built, self, x, y, ray, found_, nearest) ==
    LET canvas_point == point(F(x), F(y), Zero)
        intersection == found_.value[nearest.value + 1]
    IN  Bind(position(ray, intersection.time),
             LAMBDA hit_point :
                 Bind(normal_at(built.sphere, hit_point),
                      LAMBDA normal :
                          IF normal.tag # "Some"
                          THEN Body(self, found_, nearest, normal)
                          ELSE Body(write_pixel(
                                        self, canvas_point,
                                        Lighting(intersection.object.material,
                                                 built.light, hit_point,
                                                 neg(ray.direction),
                                                 normal.value)),
                                    found_, nearest, normal)))

\* The body of main's inner loop for pixel (x, y).
render_pixel(example, built, self, x, y) ==
    Bind(pixel_ray(example, built.canvas_pixels, x, y),
         LAMBDA ray :
             Bind(intersect(ray, built.sphere),
                  LAMBDA found_ :
                      IF found_.tag # "Some"
                      THEN Body(self, found_, NotCalled, NotCalled)
                      ELSE Bind(hit(found_.value),
                                LAMBDA nearest :
                                    IF nearest.tag # "Some"
                                    THEN Body(self, found_, nearest, NotCalled)
                                    ELSE IF example = "2d_circle"
                                    THEN Body(write_pixel(
                                                  self,
                                                  point(F(x), F(y), Zero),
                                                  Color_red),
                                              found_, nearest, NotCalled)
                                    ELSE shade_pixel(built, self, x, y, ray,
                                                     found_, nearest))))

\* main before its loops, with canvas_pixels and transform as given and id
\* the number drawn for the sphere.
Built(example, canvas_pixels, transform, id) ==
    LET made_ == with_transform(transform, id)
    IN  IF example = "2d_circle"
        THEN [canvas_pixels |-> canvas_pixels, sphere |-> made_]
        ELSE [canvas_pixels |-> canvas_pixels,
              sphere |-> [made_ EXCEPT
                              !.material.color = Color_new(One, Rat(1, 5), One)],
              light |-> PointLight_new(point(F(-10), F(10), F(-10)), white)]

\* The sphere's transforms: as in the examples, smaller, nearer, behind the
\* eye, with the eye on its surface, off the wall, on the ray through a
\* corner pixel, turned, and flattened (no inverse).
SceneTransforms ==
    {identity,
     scale(identity, Rat(1, 2), Rat(1, 2), Rat(1, 2)),
     translate(identity, Zero, Zero, F(2)),
     translate(identity, Zero, Zero, F(-10)),
     translate(identity, Zero, Zero, F(-6)),
     translate(identity, Zero, F(20), Zero),
     translate(identity, F(-4), F(4), F(10)),
     translate(identity, F(4), F(4), F(10)),
     rotate_z(identity, Atan43),
     scale(identity, Zero, One, One)}

\* canvas_pixels and transform: the rays through an even canvas's middle
\* pixel and through the corner of the wall have components the model holds.
RenderScenes ==
    {<<n, t>> : n \in {0, 1, 2}, t \in SceneTransforms}
        \cup {<<4, scale(identity, Rat(1, 2), Rat(1, 2), Rat(1, 2))>>,
              <<4, scale(identity, One, Zero, One)>>}

\* `for x in 0..canvas.width` and `for y in 0..canvas.height` have a next
\* (x, y) to run the body for.
InLoops == pc = "loop" /\ pixelX < frame.width /\ pixelY < frame.height

\* One run of the body of the inner loop, and the step of the loops.
Pixel ==
    /\ InLoops
    /\ \E body \in {render_pixel(program, setup, frame, pixelX, pixelY)} :
           /\ traced' = [x |-> pixelX, y |-> pixelY,
                         intersections |-> body.intersections,
                         hit |-> body.hit, normal |-> body.normal]
           /\ frame' = body.canvas
           /\ visited' = Append(visited, <<pixelX, pixelY>>)
           /\ IF body.normal.tag = "None"
              THEN pc' = "panicked" /\ UNCHANGED <<pixelX, pixelY>>
              ELSE /\ pc' = "loop"
                   /\ IF pixelY + 1 < frame.height
                      THEN pixelY' = pixelY + 1 /\ pixelX' = pixelX
                      ELSE pixelY' = 0 /\ pixelX' = pixelX + 1
    /\ UNCHANGED <<program, setup>>
    /\ OthersUnchanged("render")

\* The outer loop's range is used up: main goes on to save the image.
Finish ==
    /\ pc = "loop"
    /\ pixelX >= frame.width
    /\ pc' = "done"
    /\ UNCHANGED <<program, setup, frame, pixelX, pixelY, visited, traced>>
    /\ OthersUnchanged("render")

InitRender ==
    /\ program \in Examples
    /\ \E scene_ \in RenderScenes, id \in {1, 2} :
           /\ setup = Built(program, scene_[1], scene_[2], id)
           /\ frame = Canvas_new(scene_[1], scene_[1])
    /\ pixelX = 0
    /\ pixelY = 0
    /\ pc = "loop"
    /\ visited = <<>>
    /\ traced = NotCalled
    /\ OthersIdle("render")

NextRender == Pixel \/ Finish

SpecRender == InitRender /\ [][NextRender]_vars

\* main runs on: nothing but a panic stops it between two pixels or after
\* the last.  The second conjunct is WF_vars(Pixel) with ENABLED <<Pixel>>_vars
\* written out: the body can run, and appends to visited, whenever InLoops.
SpecRenderFair ==
    /\ SpecRender
    /\ WF_vars(Finish)
    /\ ([]<>(~InLoops) \/ []<><<Pixel>>_vars)

\* The pixel of main's canvas at column i and row j.
PixelOf(i, j) == frame.pixels[j * frame.width + i + 1]

\* Every pixel of the canvas, in the order the loops reach them.
RECURSIVE LoopOrder(_, _, _)
LoopOrder(width, height, k) ==
    IF k >= width * height THEN <<>>
    ELSE <<(<<k \div height, k % height>>)>> \o LoopOrder(width, height, k + 1)

\* The pixel the latest run of the loop body was for holds a colour exactly
\* when intersect and hit both returned something in that run; no run has
\* failed; no pixel has been visited twice, and past the loops every pixel
\* has been visited, in loop order.
LoopKeepsToHits ==
    /\ pc # "panicked"
    /\ traced # NotCalled =>
           (PixelOf(traced.x, traced.y) # black
                <=> traced.intersections.tag = "Some" /\ traced.hit.tag = "Some")
    /\ \A i, j \in 1..Len(visited) : i # j => visited[i] # visited[j]
    /\ \A i \in 0..(frame.width - 1), j \in 0..(frame.height - 1) :
           PixelOf(i, j) # black => \E k \in 1..Len(visited) : visited[k] = <<i, j>>
    /\ pc = "done" => visited = LoopOrder(frame.width, frame.height, 0)

\* A run of the loop body finds its pixel black and leaves every other pixel
\* as it was; the step after the loops leaves the canvas alone.
BodyTouchesOwnPixel ==
    /\ Len(frame'.pixels) = Len(frame.pixels)
    /\ \A k \in 1..Len(frame.pixels) :
           IF InLoops /\ k = pixelY * frame.width + pixelX + 1
           THEN frame.pixels[k] = black
           ELSE frame'.pixels[k] = frame.pixels[k]

\* C26: in the per-pixel render loop a pixel is written only when intersect
\* returns intersections and hit returns a hit for that pixel's ray; when
\* either is absent the pixel keeps its initial black and the loop goes on
\* to the next pixel without failing, so the loop visits every pixel once
\* and ends.
C26_WritesOnlyHitsAndEnds ==
    /\ []LoopKeepsToHits
    /\ [][BodyTouchesOwnPixel]_vars
    /\ <>(pc = "done")

\* The loops have ended on a canvas of four pixels of which one was written
\* and the others, whose rays miss the sphere, are black.
C26_Witness ==
    /\ pc = "done"
    /\ Len(visited) = 4
    /\ \E i, j \in 0..1 : PixelOf(i, j) # black
    /\ \E i, j \in 0..1 : PixelOf(i, j) = black

\* The loops have ended after a last pixel whose ray met the sphere behind
\* the eye only: intersections but no hit, and the pixel is black.
C26_WitnessNoHit ==
    /\ pc = "done"
    /\ traced # NotCalled
    /\ traced.intersections.tag = "Some"
    /\ traced.hit.tag = "None"
    /\ PixelOf(traced.x, traced.y) = black

\* C29: in the render loop normal_at is called only for a sphere on which
\* intersect has just returned intersections; intersect and normal_at both
\* return nothing for a transform without an inverse, so normal_at returns
\* a value there and the unwrap on its result never fails.
C29_NormalAlwaysThere ==
    /\ pc # "panicked"
    /\ (normal_at(setup.sphere, point(Zero, Zero, F(-5))).tag = "None")
           <=> ~is_invertible(setup.sphere.transform)
    /\ traced # NotCalled =>
           /\ traced.normal # NotCalled =>
                  /\ traced.intersections.tag = "Some"
                  /\ traced.hit.tag = "Some"
                  /\ traced.normal.tag = "Some"
           /\ traced.intersections.tag = "Some" =>
                  is_invertible(setup.sphere.transform)
           /\ program = "lighted_sphere" /\ traced.hit.tag = "Some" =>
                  traced.normal.tag = "Some"

\* lighted_sphere has shaded a pixel of a sphere it was given a transform
\* for, with the normal normal_at returned.
C29_Witness ==
    /\ program = "lighted_sphere"
    /\ traced # NotCalled
    /\ setup.sphere.transform # identity
    /\ traced.normal.tag = "Some"
    /\ PixelOf(traced.x, traced.y) # black

\* lighted_sphere has run its loop body for a sphere whose transform has no
\* inverse: intersect returned nothing and normal_at was not called.
C29_WitnessFlat ==
    /\ program = "lighted_sphere"
    /\ traced # NotCalled
    /\ ~is_invertible(setup.sphere.transform)
    /\ traced.intersections.tag = "None"
    /\ traced.normal = NotCalled
====
